---- MODULE Spec2Model ----
(***************************************************************************)
(* A byte-level model of the capture-file codecs of RajeshGottlieb/go.     *)
(* Package pcapng: the typed blocks and options with their Pack methods,   *)
(* the TLV list decoder, PcapngReader.Read, Write, and the read/write loop *)
(* of the copypcapng tool; the reader and the packers of the older         *)
(* src/pcapng/pcapng.go.  Package pcap: the reader and the writer of       *)
(* libpcap files.                                                          *)
(*                                                                         *)
(* Bytes are the integers 0..255 and a byte string is a sequence of them.  *)
(* Go slice indices are 0-based and half open: buf[lo:hi] is               *)
(* SubSeq(buf, lo+1, hi).  A slice expression on a Go slice is checked     *)
(* against the CAPACITY of the slice, not its length; every sub-slice of   *)
(* the block buffer has the end of that buffer as its capacity.  A failed  *)
(* check is a run-time panic, which is a result of its own ("panic"): it   *)
(* is not an error value returned to the caller.                           *)
(***************************************************************************)
EXTENDS Integers, Sequences, FiniteSets, TLC

(***************************************************************************)
(* Bounds of the model.                                                    *)
(***************************************************************************)
\* the number of blocks the producer puts in a file
MaxBlocks == 2
\* the number of options (and of records) a typed block carries
MaxOpts == 2
\* the length of a string value and of the packet data
MaxLen == 3
\* the length of a raw option region handed to the TLV list decoders
MaxRegion == 6

(***************************************************************************)
(* Constants of the package.                                               *)
(***************************************************************************)
INTERFACE_DESCRIPTION_BLOCK == 1
NAME_RESOLUTION_BLOCK == 4
INTERFACE_STATISTICS_BLOCK == 5
ENHANCED_PACKET_BLOCK == 6
SECTION_HEADER_BLOCK == 168627466
MagicNumber == 439041101
SwapMagicNumber == 1295788826

opt_endofopt == 0
opt_comment == 1
shb_hardware == 2
shb_os == 3
shb_userappl == 4
if_name == 2
if_tsresol == 9
if_os == 12
isb_starttime == 2
isb_endtime == 3
isb_ifrecv == 4
isb_ifdrop == 5
isb_filteraccept == 6
isb_osdrop == 7
isb_usrdeliv == 8
epb_flags == 2
epb_hash == 3
epb_dropcount == 4
epb_packetid == 5
epb_queue == 6
ns_dnsname == 2
ns_dnsIP4addr == 3
ns_dnsIP6addr == 4
nrb_record_end == 0
nrb_record_ipv4 == 1
nrb_record_ipv6 == 2

\* binary.LittleEndian and binary.BigEndian
LittleEndian == "LittleEndian"
BigEndian == "BigEndian"
ByteOrders == {LittleEndian, BigEndian}

(***************************************************************************)
(* encoding/binary on byte strings.                                        *)
(***************************************************************************)
Reverse(s) == [i \in 1..Len(s) |-> s[Len(s) + 1 - i]]

Zeros(n) == [i \in 1..n |-> 0]

\* the bytes of s in the order most significant first
MsbFirst(s, endian) == IF endian = BigEndian THEN s ELSE Reverse(s)

\* binary.Write of a uint8
PutU8(v) == <<v % 256>>

\* binary.Write of a uint16: the value is truncated to 16 bits
PutU16(v, endian) ==
    MsbFirst(<<(v \div 256) % 256, v % 256>>, endian)

\* binary.Write of a uint32 (the model's values are below 2^31)
PutU32(v, endian) ==
    MsbFirst(<<(v \div 16777216) % 256, (v \div 65536) % 256,
               (v \div 256) % 256, v % 256>>, endian)

\* binary.Write of a uint64 (the model's values are below 2^31)
PutU64(v, endian) ==
    MsbFirst(Zeros(4) \o PutU32(v, BigEndian), endian)

\* binary.Write of an int64, two's complement (|v| below 2^31)
PutI64(v, endian) ==
    IF v >= 0 THEN PutU64(v, endian)
    ELSE MsbFirst([i \in 1..8 |-> 255 - PutU64(-v - 1, BigEndian)[i]], endian)

\* Horner's rule on digits most significant first.  The checker's integers
\* are 32 bits wide, so a value of 2^31 - 1 or more is reported as 2^31 - 1:
\* such a value is larger than every length, offset and constant of the
\* model, and is compared but never used in arithmetic that could wrap.
RECURSIVE Horner(_, _)
Horner(acc, digits) ==
    IF digits = <<>> THEN acc
    ELSE IF acc > (2147483647 - digits[1]) \div 256 THEN 2147483647
    ELSE Horner(acc * 256 + digits[1], Tail(digits))

\* binary.Read of an unsigned integer of Len(s) bytes
GetUint(s, endian) == Horner(0, MsbFirst(s, endian))

\* binary.Read of an int64
GetI64(s, endian) ==
    LET m == MsbFirst(s, endian)
    IN  IF m[1] >= 128 THEN -1 - Horner(0, [i \in 1..8 |-> 255 - m[i]])
        ELSE Horner(0, m)

\* the Go slice expression buf[lo:hi] (the caller has checked the bounds)
Slice(buf, lo, hi) == SubSeq(buf, lo + 1, hi)

\* the padding to the next 32-bit boundary: (4 - (n & 3)) & 3
Padding(n) == (4 - (n % 4)) % 4

(***************************************************************************)
(* Typed options and records.  An option is a record whose field t is the  *)
(* name of its Go type.  A string or byte-slice payload is the field       *)
(* Value (a byte string); an integer payload, which the source also calls  *)
(* Value, is the field Num, so that the two kinds are never compared.      *)
(***************************************************************************)
\* a TLV encoder that forgets the padding
packTlvUnpadded(tlvType, tlvValue, endian) ==
    PutU16(tlvType, endian) \o PutU16(Len(tlvValue), endian) \o tlvValue

packTlv(tlvType, tlvValue, endian) ==
    LET buf == PutU16(tlvType, endian) \o PutU16(Len(tlvValue), endian) \o tlvValue
    IN  buf \o Zeros(Padding(Len(buf)))

Opt_Comment_Pack(opt, endian) == packTlv(opt_comment, opt.Value, endian)

Shb_Hardware_Pack(opt, endian) == packTlv(shb_hardware, opt.Value, endian)

Shb_Os_Pack(opt, endian) == packTlv(shb_os, opt.Value, endian)

Shb_Userappl_Pack(opt, endian) == packTlv(shb_userappl, opt.Value, endian)

If_Name_Pack(opt, endian) == packTlv(if_name, opt.Value, endian)

If_Tsresol_Pack(opt, endian) ==
    LET buf == PutU16(if_tsresol, endian) \o PutU16(1, endian) \o PutU8(opt.Num)
    IN  buf \o Zeros(Padding(Len(buf)))

If_Os_Pack(opt, endian) == packTlv(if_os, opt.Value, endian)

\* binary.Write of the struct {TimestampHigh, TimestampLow uint32}
Isb_Starttime_Pack(opt, endian) ==
    packTlv(isb_starttime,
            PutU32(opt.TimestampHigh, endian) \o PutU32(opt.TimestampLow, endian),
            endian)

Isb_Endtime_Pack(opt, endian) ==
    packTlv(isb_endtime,
            PutU32(opt.TimestampHigh, endian) \o PutU32(opt.TimestampLow, endian),
            endian)

Isb_Ifrecv_Pack(opt, endian) == packTlv(isb_ifrecv, PutU64(opt.Num, endian), endian)

Isb_Ifdrop_Pack(opt, endian) == packTlv(isb_ifdrop, PutU64(opt.Num, endian), endian)

Isb_Filteraccept_Pack(opt, endian) ==
    packTlv(isb_filteraccept, PutU64(opt.Num, endian), endian)

Isb_Osdrop_Pack(opt, endian) == packTlv(isb_osdrop, PutU64(opt.Num, endian), endian)

Isb_Usrdeliv_Pack(opt, endian) == packTlv(isb_usrdeliv, PutU64(opt.Num, endian), endian)

Epb_Flags_Pack(opt, endian) == packTlv(epb_flags, PutU32(opt.Num, endian), endian)

Epb_Hash_Pack(opt, endian) == packTlv(epb_hash, opt.Value, endian)

\* the source packs Epb_Dropcount and Epb_Packetid with the tag epb_hash
Epb_Dropcount_Pack(opt, endian) == packTlv(epb_hash, PutU64(opt.Num, endian), endian)

Epb_Packetid_Pack(opt, endian) == packTlv(epb_hash, PutU64(opt.Num, endian), endian)

Epb_Queue_Pack(opt, endian) == packTlv(epb_queue, PutU32(opt.Num, endian), endian)

Nrb_Record_ipv4_Pack(rec, endian) == packTlv(nrb_record_ipv4, rec.Value, endian)

Nrb_Record_ipv6_Pack(rec, endian) == packTlv(nrb_record_ipv6, rec.Value, endian)

Ns_Dnsname_Pack(opt, endian) == packTlv(ns_dnsname, opt.Value, endian)

Ns_DnsIP4addr_Pack(opt, endian) == packTlv(ns_dnsIP4addr, opt.Value, endian)

Ns_DnsIP6addr_Pack(opt, endian) == packTlv(ns_dnsIP6addr, opt.Value, endian)

\* opt.Pack(endian): the dynamic dispatch on the option's (record's) type
Option_Pack(opt, endian) ==
    CASE opt.t = "Opt_Comment" -> Opt_Comment_Pack(opt, endian)
      [] opt.t = "Shb_Hardware" -> Shb_Hardware_Pack(opt, endian)
      [] opt.t = "Shb_Os" -> Shb_Os_Pack(opt, endian)
      [] opt.t = "Shb_Userappl" -> Shb_Userappl_Pack(opt, endian)
      [] opt.t = "If_Name" -> If_Name_Pack(opt, endian)
      [] opt.t = "If_Tsresol" -> If_Tsresol_Pack(opt, endian)
      [] opt.t = "If_Os" -> If_Os_Pack(opt, endian)
      [] opt.t = "Isb_Starttime" -> Isb_Starttime_Pack(opt, endian)
      [] opt.t = "Isb_Endtime" -> Isb_Endtime_Pack(opt, endian)
      [] opt.t = "Isb_Ifrecv" -> Isb_Ifrecv_Pack(opt, endian)
      [] opt.t = "Isb_Ifdrop" -> Isb_Ifdrop_Pack(opt, endian)
      [] opt.t = "Isb_Filteraccept" -> Isb_Filteraccept_Pack(opt, endian)
      [] opt.t = "Isb_Osdrop" -> Isb_Osdrop_Pack(opt, endian)
      [] opt.t = "Isb_Usrdeliv" -> Isb_Usrdeliv_Pack(opt, endian)
      [] opt.t = "Epb_Flags" -> Epb_Flags_Pack(opt, endian)
      [] opt.t = "Epb_Hash" -> Epb_Hash_Pack(opt, endian)
      [] opt.t = "Epb_Dropcount" -> Epb_Dropcount_Pack(opt, endian)
      [] opt.t = "Epb_Packetid" -> Epb_Packetid_Pack(opt, endian)
      [] opt.t = "Epb_Queue" -> Epb_Queue_Pack(opt, endian)
      [] opt.t = "Nrb_Record_ipv4" -> Nrb_Record_ipv4_Pack(opt, endian)
      [] opt.t = "Nrb_Record_ipv6" -> Nrb_Record_ipv6_Pack(opt, endian)
      [] opt.t = "Ns_Dnsname" -> Ns_Dnsname_Pack(opt, endian)
      [] opt.t = "Ns_DnsIP4addr" -> Ns_DnsIP4addr_Pack(opt, endian)
      [] opt.t = "Ns_DnsIP6addr" -> Ns_DnsIP6addr_Pack(opt, endian)

\* the concatenation of the packed elements of a list
RECURSIVE PackEach(_, _)
PackEach(list, endian) ==
    IF list = <<>> THEN <<>>
    ELSE Option_Pack(Head(list), endian) \o PackEach(Tail(list), endian)

\* an encoder of option lists that forgets the terminator
packOptionsUnterminated(options, endian) ==
    IF Len(options) > 0 THEN PackEach(options, endian) ELSE <<>>

packOptions(options, endian) ==
    IF Len(options) > 0
    THEN PackEach(options, endian) \o PutU16(opt_endofopt, endian) \o PutU16(0, endian)
    ELSE <<>>

packRecords(records, endian) ==
    PackEach(records, endian) \o PutU16(nrb_record_end, endian) \o PutU16(0, endian)

(***************************************************************************)
(* Typed blocks.  A block is a record whose field t is the name of its Go  *)
(* type.                                                                   *)
(***************************************************************************)
GenericBlock_Pack(b, endian) == b.Data

\* a section header packed with a section length of 0
SectionBlock_PackZeroLength(b, endian) ==
    LET options == packOptions(b.Options, endian)
        blockTotalLength == 28 + Len(options)
    IN  PutU32(SECTION_HEADER_BLOCK, endian) \o PutU32(blockTotalLength, endian)
        \o PutU32(MagicNumber, endian) \o PutU16(1, endian) \o PutU16(0, endian)
        \o PutI64(0, endian) \o options \o PutU32(blockTotalLength, endian)

SectionBlock_Pack(b, endian) ==
    LET options == packOptions(b.Options, endian)
        blockTotalLength == 28 + Len(options)
    IN  PutU32(SECTION_HEADER_BLOCK, endian) \o PutU32(blockTotalLength, endian)
        \o PutU32(MagicNumber, endian) \o PutU16(1, endian) \o PutU16(0, endian)
        \o PutI64(-1, endian) \o options \o PutU32(blockTotalLength, endian)

InterfaceBlock_Pack(b, endian) ==
    LET options == packOptions(b.Options, endian)
        blockTotalLength == 20 + Len(options)
    IN  PutU32(INTERFACE_DESCRIPTION_BLOCK, endian) \o PutU32(blockTotalLength, endian)
        \o PutU16(b.LinkType, endian) \o PutU16(0, endian) \o PutU32(b.SnapLen, endian)
        \o options \o PutU32(blockTotalLength, endian)

InterfaceStatisticsBlock_Pack(b, endian) ==
    LET options == packOptions(b.Options, endian)
        blockTotalLength == 24 + Len(options)
    IN  PutU32(INTERFACE_STATISTICS_BLOCK, endian) \o PutU32(blockTotalLength, endian)
        \o PutU32(b.InterfaceID, endian) \o PutU32(b.TimestampHigh, endian)
        \o PutU32(b.TimestampLow, endian) \o options
        \o PutU32(blockTotalLength, endian)

EnhancedPacketBlock_Pack(b, endian) ==
    LET options == packOptions(b.Options, endian)
        padding == Padding(Len(b.PacketData))
        blockTotalLength == 32 + Len(b.PacketData) + padding + Len(options)
    IN  PutU32(ENHANCED_PACKET_BLOCK, endian) \o PutU32(blockTotalLength, endian)
        \o PutU32(b.InterfaceID, endian) \o PutU32(b.TimestampHigh, endian)
        \o PutU32(b.TimestampLow, endian) \o PutU32(Len(b.PacketData), endian)
        \o PutU32(b.OriginalPacketLength, endian) \o b.PacketData \o Zeros(padding)
        \o options \o PutU32(blockTotalLength, endian)

NameResolutionBlock_Pack(b, endian) ==
    LET records == packRecords(b.Records, endian)
        options == packOptions(b.Options, endian)
        blockTotalLength == 12 + Len(records) + Len(options)
    IN  PutU32(NAME_RESOLUTION_BLOCK, endian) \o PutU32(blockTotalLength, endian)
        \o records \o options \o PutU32(blockTotalLength, endian)

\* b.Pack(endian): the dynamic dispatch on the block's type
Block_Pack(b, endian) ==
    CASE b.t = "SectionBlock" -> SectionBlock_Pack(b, endian)
      [] b.t = "InterfaceBlock" -> InterfaceBlock_Pack(b, endian)
      [] b.t = "InterfaceStatisticsBlock" -> InterfaceStatisticsBlock_Pack(b, endian)
      [] b.t = "EnhancedPacketBlock" -> EnhancedPacketBlock_Pack(b, endian)
      [] b.t = "NameResolutionBlock" -> NameResolutionBlock_Pack(b, endian)
      [] b.t = "GenericBlock" -> GenericBlock_Pack(b, endian)

(***************************************************************************)
(* The TLV list decoder.  The region is buf[lo:hi] of the block buffer     *)
(* buf; its capacity ends at Len(buf).  The result is                      *)
(*   st    "ok", or "panic" when a slice expression is out of range,       *)
(*   lo    the start of remainingBuf (which ends at hi),                   *)
(*   list  the TLVs [Type, Length, Value] decoded so far,                  *)
(*   over  whether a byte outside the region was sliced.                   *)
(***************************************************************************)
TlvResult(st, lo, list, over) == [st |-> st, lo |-> lo, list |-> list, over |-> over]

RECURSIVE getTlvListFrom(_, _, _, _, _, _)
RECURSIVE getTlvListStep(_, _, _, _, _, _, _, _)
\* one turn of the loop "for len(buf) > 0"
getTlvListFrom(buf, lo, hi, endian, tlvList, over) ==
    IF hi - lo <= 0 THEN TlvResult("ok", lo, tlvList, over)
    \* buf[0:2] and buf[2:4]: checked against the capacity
    ELSE IF lo + 4 > Len(buf)
         THEN TlvResult("panic", lo, tlvList, over \/ (lo + 2 > hi /\ lo + 2 <= Len(buf)))
    \* buf = buf[4:]: the low index is checked against the length
    ELSE IF lo + 4 > hi THEN TlvResult("panic", lo, tlvList, TRUE)
    ELSE getTlvListStep(buf, lo, hi, endian, tlvList, over,
                        GetUint(Slice(buf, lo, lo + 2), endian),
                        GetUint(Slice(buf, lo + 2, lo + 4), endian))

\* the rest of the turn, with tlv.Type and tlv.Length decoded
getTlvListStep(buf, lo, hi, endian, tlvList, over, type, length) ==
    IF type = 0 /\ length = 0 THEN TlvResult("ok", lo + 4, tlvList, over)
    \* tlv.Value = buf[:length]: checked against the capacity
    ELSE IF lo + 4 + length > Len(buf) THEN TlvResult("panic", lo + 4, tlvList, TRUE)
    \* buf = buf[paddedLength:]: checked against the length
    ELSE IF lo + 4 + length + Padding(length) > hi
         THEN TlvResult("panic", lo + 4, tlvList, over \/ lo + 4 + length > hi)
    ELSE getTlvListFrom(buf, lo + 4 + length + Padding(length), hi, endian,
             Append(tlvList, [Type |-> type, Length |-> length,
                              Value |-> Slice(buf, lo + 4, lo + 4 + length)]),
             over \/ lo + 4 + length > hi)

getTlvList(buf, lo, hi, endian) == getTlvListFrom(buf, lo, hi, endian, <<>>, FALSE)

(***************************************************************************)
(* The typed option of one TLV, per kind of block: the switch statements   *)
(* of Read.  The result is st ("ok", "error", "eof" for the error value    *)
(* io.EOF, or "panic") and the options to append (none for a code that no  *)
(* case of the switch names).                                              *)
(***************************************************************************)
Decoded(st, opts) == [st |-> st, opts |-> opts]

\* binary.Read of a fixed-size struct of n bytes from bytes.NewBuffer(value):
\* io.EOF when there is no byte at all, io.ErrUnexpectedEOF when too few
FixedSt(value, n) ==
    IF Len(value) >= n THEN "ok" ELSE IF Len(value) = 0 THEN "eof" ELSE "error"

StringOpt(t, tlv) == Decoded("ok", <<[t |-> t, Value |-> tlv.Value]>>)

NumOpt(t, tlv, n, endian) ==
    IF FixedSt(tlv.Value, n) = "ok"
    THEN Decoded("ok", <<[t |-> t, Num |-> GetUint(Slice(tlv.Value, 0, n), endian)]>>)
    ELSE Decoded(FixedSt(tlv.Value, n), <<>>)

TimeOpt(t, tlv, endian) ==
    IF FixedSt(tlv.Value, 8) = "ok"
    THEN Decoded("ok", <<[t |-> t,
                          TimestampHigh |-> GetUint(Slice(tlv.Value, 0, 4), endian),
                          TimestampLow |-> GetUint(Slice(tlv.Value, 4, 8), endian)]>>)
    ELSE Decoded(FixedSt(tlv.Value, 8), <<>>)

\* copy(option.Value[:], tlv.Value) into a zeroed array of n bytes
AddrOpt(t, tlv, n) ==
    Decoded("ok", <<[t |-> t,
                     Value |-> [i \in 1..n |-> IF i <= Len(tlv.Value)
                                               THEN tlv.Value[i] ELSE 0]]>>)

SectionOption(tlv, endian) ==
    CASE tlv.Type = opt_comment -> StringOpt("Opt_Comment", tlv)
      [] tlv.Type = shb_hardware -> StringOpt("Shb_Hardware", tlv)
      [] tlv.Type = shb_os -> StringOpt("Shb_Os", tlv)
      [] tlv.Type = shb_userappl -> StringOpt("Shb_Userappl", tlv)
      [] OTHER -> Decoded("ok", <<>>)

InterfaceOption(tlv, endian) ==
    CASE tlv.Type = opt_comment -> StringOpt("Opt_Comment", tlv)
      [] tlv.Type = if_name -> StringOpt("If_Name", tlv)
      \* uint8(tlv.Value[0]): the index is checked against the length
      [] tlv.Type = if_tsresol ->
            IF Len(tlv.Value) = 0 THEN Decoded("panic", <<>>)
            ELSE Decoded("ok", <<[t |-> "If_Tsresol", Num |-> tlv.Value[1]]>>)
      [] tlv.Type = if_os -> StringOpt("If_Os", tlv)
      [] OTHER -> Decoded("ok", <<>>)

InterfaceStatisticsOption(tlv, endian) ==
    CASE tlv.Type = opt_comment -> StringOpt("Opt_Comment", tlv)
      [] tlv.Type = isb_starttime -> TimeOpt("Isb_Starttime", tlv, endian)
      [] tlv.Type = isb_endtime -> TimeOpt("Isb_Endtime", tlv, endian)
      [] tlv.Type = isb_ifrecv -> NumOpt("Isb_Ifrecv", tlv, 8, endian)
      [] tlv.Type = isb_ifdrop -> NumOpt("Isb_Ifdrop", tlv, 8, endian)
      [] tlv.Type = isb_filteraccept -> NumOpt("Isb_Filteraccept", tlv, 8, endian)
      [] tlv.Type = isb_osdrop -> NumOpt("Isb_Osdrop", tlv, 8, endian)
      [] tlv.Type = isb_usrdeliv -> NumOpt("Isb_Usrdeliv", tlv, 8, endian)
      [] OTHER -> Decoded("ok", <<>>)

EnhancedPacketOption(tlv, endian) ==
    CASE tlv.Type = opt_comment -> StringOpt("Opt_Comment", tlv)
      [] tlv.Type = epb_flags -> NumOpt("Epb_Flags", tlv, 4, endian)
      \* binary.Read into a struct with a slice field ([]uint8) has no fixed
      \* size: it returns the error "binary.Read: invalid type" and reads nothing
      [] tlv.Type = epb_hash -> Decoded("error", <<>>)
      [] tlv.Type = epb_dropcount -> NumOpt("Epb_Dropcount", tlv, 8, endian)
      [] tlv.Type = epb_packetid -> NumOpt("Epb_Packetid", tlv, 8, endian)
      [] tlv.Type = epb_queue -> NumOpt("Epb_Queue", tlv, 4, endian)
      [] OTHER -> Decoded("ok", <<>>)

NameResolutionRecord(tlv, endian) ==
    CASE tlv.Type = nrb_record_ipv4 -> StringOpt("Nrb_Record_ipv4", tlv)
      [] tlv.Type = nrb_record_ipv6 -> StringOpt("Nrb_Record_ipv6", tlv)
      [] OTHER -> Decoded("ok", <<>>)

NameResolutionOption(tlv, endian) ==
    CASE tlv.Type = opt_comment -> StringOpt("Opt_Comment", tlv)
      [] tlv.Type = ns_dnsname -> StringOpt("Ns_Dnsname", tlv)
      [] tlv.Type = ns_dnsIP4addr -> AddrOpt("Ns_DnsIP4addr", tlv, 4)
      [] tlv.Type = ns_dnsIP6addr -> AddrOpt("Ns_DnsIP6addr", tlv, 16)
      [] OTHER -> Decoded("ok", <<>>)

\* the switch of the block kind `table`
TypedOption(table, tlv, endian) ==
    CASE table = "SectionBlock" -> SectionOption(tlv, endian)
      [] table = "InterfaceBlock" -> InterfaceOption(tlv, endian)
      [] table = "InterfaceStatisticsBlock" -> InterfaceStatisticsOption(tlv, endian)
      [] table = "EnhancedPacketBlock" -> EnhancedPacketOption(tlv, endian)
      [] table = "NameResolutionRecords" -> NameResolutionRecord(tlv, endian)
      [] table = "NameResolutionBlock" -> NameResolutionOption(tlv, endian)

\* for _, tlv := range tlvList { switch tlv.Type ... }: the first option that
\* fails ends Read
RECURSIVE TypedOptions(_, _, _, _)
RECURSIVE TypedOptionsStep(_, _, _, _, _)
TypedOptions(table, tlvList, endian, options) ==
    IF tlvList = <<>> THEN Decoded("ok", options)
    ELSE TypedOptionsStep(table, Tail(tlvList), endian, options,
                          TypedOption(table, Head(tlvList), endian))

\* d: the result of the switch for the TLV at hand
TypedOptionsStep(table, rest, endian, options, d) ==
    IF d.st # "ok" THEN Decoded(d.st, options)
    ELSE TypedOptions(table, rest, endian, options \o d.opts)

(***************************************************************************)
(* PcapngReader.Read.  The source fh is a file: a read of n > 0 bytes at   *)
(* the end of the file returns (0, io.EOF) and otherwise the bytes that    *)
(* are left, up to n, with no error.                                       *)
(*                                                                         *)
(* The body of a block is parsed from the block buffer buf, whose length   *)
(* and capacity are blockTotalLength, or 12 when blockTotalLength is less  *)
(* than 12.  A parse yields kind ("block", "error", "eof" for the error    *)
(* value io.EOF, "panic"), the block, and over: whether bytes outside an   *)
(* option region, or outside the packet's room, were sliced.               *)
(***************************************************************************)
NoBlock == [t |-> "nil"]

Parsed(kind, block, over) == [kind |-> kind, block |-> block, over |-> over]

Min(a, b) == IF a <= b THEN a ELSE b

Max(a, b) == IF a >= b THEN a ELSE b

\* _, tlvList, err := getTlvList(optionBuf, pr.Endian), then the switch of
\* the block kind `table` on every TLV: l is the decoded list, d the options
Options(table, l, endian) ==
    [l |-> l, d |-> TypedOptions(table, l.list, endian, <<>>)]

\* the end of a body parser: the TLV list failed, an option failed, or the
\* block is returned
Finish(o, block) ==
    IF o.l.st # "ok" THEN Parsed(o.l.st, NoBlock, o.l.over)
    ELSE IF o.d.st # "ok" THEN Parsed(o.d.st, NoBlock, o.l.over)
    ELSE Parsed("block", block, o.l.over)

SectionBlockOf(buf, blockType, blockTotalLength, byteOrderMagic, endian, o) ==
    Finish(o, [t |-> "SectionBlock", Type |-> blockType,
               TotalLength |-> blockTotalLength,
               ByteOrderMagic |-> byteOrderMagic,
               MajorVersion |-> GetUint(Slice(buf, 12, 14), endian),
               MinorVersion |-> GetUint(Slice(buf, 14, 16), endian),
               SectionLength |-> GetI64(Slice(buf, 16, 24), endian),
               Options |-> o.d.opts])

ReadSectionBlock(buf, blockType, blockTotalLength, byteOrderMagic, endian) ==
    \* buf[12:14], buf[14:16], buf[16:24]
    IF Len(buf) < 24 THEN Parsed("panic", NoBlock, FALSE)
    \* optionLen := int(blockTotalLength) - 28; optionBuf := buf[24 : 24+optionLen]
    ELSE IF blockTotalLength - 28 < 0 \/ blockTotalLength - 4 > Len(buf)
         THEN Parsed("panic", NoBlock, FALSE)
    ELSE SectionBlockOf(buf, blockType, blockTotalLength, byteOrderMagic, endian,
            Options("SectionBlock",
                    getTlvList(buf, 24, blockTotalLength - 4, endian), endian))

InterfaceBlockOf(buf, blockType, blockTotalLength, endian, o) ==
    Finish(o, [t |-> "InterfaceBlock", Type |-> blockType,
               TotalLength |-> blockTotalLength,
               LinkType |-> GetUint(Slice(buf, 8, 10), endian),
               SnapLen |-> GetUint(Slice(buf, 12, 16), endian),
               Options |-> o.d.opts])

ReadInterfaceBlock(buf, blockType, blockTotalLength, endian) ==
    \* buf[8:10], buf[12:16]
    IF Len(buf) < 16 THEN Parsed("panic", NoBlock, FALSE)
    \* optionLen := int(blockTotalLength) - 20; optionBuf := buf[16 : 16+optionLen]
    ELSE IF blockTotalLength - 20 < 0 \/ blockTotalLength - 4 > Len(buf)
         THEN Parsed("panic", NoBlock, FALSE)
    ELSE InterfaceBlockOf(buf, blockType, blockTotalLength, endian,
            Options("InterfaceBlock",
                    getTlvList(buf, 16, blockTotalLength - 4, endian), endian))

InterfaceStatisticsBlockOf(buf, blockType, blockTotalLength, endian, o) ==
    Finish(o, [t |-> "InterfaceStatisticsBlock", Type |-> blockType,
               TotalLength |-> blockTotalLength,
               InterfaceID |-> GetUint(Slice(buf, 8, 12), endian),
               TimestampHigh |-> GetUint(Slice(buf, 12, 16), endian),
               TimestampLow |-> GetUint(Slice(buf, 16, 20), endian),
               Options |-> o.d.opts])

ReadInterfaceStatisticsBlock(buf, blockType, blockTotalLength, endian) ==
    \* buf[8:12], buf[12:16], buf[16:20]
    IF Len(buf) < 20 THEN Parsed("panic", NoBlock, FALSE)
    \* optionLen := int(blockTotalLength) - 24; optionBuf := buf[20 : 20+optionLen]
    ELSE IF blockTotalLength - 24 < 0 \/ blockTotalLength - 4 > Len(buf)
         THEN Parsed("panic", NoBlock, FALSE)
    ELSE InterfaceStatisticsBlockOf(buf, blockType, blockTotalLength, endian,
            Options("InterfaceStatisticsBlock",
                    getTlvList(buf, 20, blockTotalLength - 4, endian), endian))

EnhancedPacketBlockOf(buf, blockType, blockTotalLength, endian, capturedPacketLength, o) ==
    Finish(o, [t |-> "EnhancedPacketBlock", Type |-> blockType,
               TotalLength |-> blockTotalLength,
               InterfaceID |-> GetUint(Slice(buf, 8, 12), endian),
               TimestampHigh |-> GetUint(Slice(buf, 12, 16), endian),
               TimestampLow |-> GetUint(Slice(buf, 16, 20), endian),
               CapturedPacketLength |-> capturedPacketLength,
               OriginalPacketLength |-> GetUint(Slice(buf, 24, 28), endian),
               PacketData |-> Slice(buf, 28, 28 + capturedPacketLength),
               Options |-> o.d.opts])

\* the parser once capturedPacketLength is decoded; paddedPacketLen is
\* capturedPacketLength + Padding(capturedPacketLength)
ReadEnhancedPacketData(buf, blockType, blockTotalLength, endian, capturedPacketLength) ==
    \* packetData := buf[28 : 28+capturedPacketLength]
    IF capturedPacketLength > Len(buf) - 28 THEN Parsed("panic", NoBlock, FALSE)
    \* optionLen := int(blockTotalLength) - (32 + paddedPacketLen)
    \* optionBuf := buf[28+paddedPacketLen : 28+paddedPacketLen+optionLen]
    ELSE IF blockTotalLength - (32 + capturedPacketLength + Padding(capturedPacketLength)) < 0
            \/ blockTotalLength - 4 > Len(buf)
         \* the packet's room ends where the trailing length begins
         THEN Parsed("panic", NoBlock, 28 + capturedPacketLength > blockTotalLength - 4)
    ELSE EnhancedPacketBlockOf(buf, blockType, blockTotalLength, endian,
            capturedPacketLength,
            Options("EnhancedPacketBlock",
                    getTlvList(buf,
                               28 + capturedPacketLength + Padding(capturedPacketLength),
                               blockTotalLength - 4, endian), endian))

ReadEnhancedPacketBlock(buf, blockType, blockTotalLength, endian) ==
    \* buf[8:12] ... buf[24:28]
    IF Len(buf) < 28 THEN Parsed("panic", NoBlock, FALSE)
    ELSE ReadEnhancedPacketData(buf, blockType, blockTotalLength, endian,
                                GetUint(Slice(buf, 20, 24), endian))

\* r: the record list; l: the list decoded from the remainingBuf of r
NameResolutionBlockOf(blockType, blockTotalLength, endian, r, l) ==
    IF r.st # "ok" THEN Parsed(r.st, NoBlock, r.over)
    ELSE IF l.st # "ok" THEN Parsed(l.st, NoBlock, r.over \/ l.over)
    ELSE Parsed("block",
           [t |-> "NameResolutionBlock", Type |-> blockType,
            TotalLength |-> blockTotalLength,
            Records |-> TypedOptions("NameResolutionRecords", r.list, endian, <<>>).opts,
            Options |-> TypedOptions("NameResolutionBlock", l.list, endian, <<>>).opts],
           r.over \/ l.over)

\* a reader that decodes the options from the start of the body again
NameResolutionOptionsFromStart(buf, blockType, blockTotalLength, endian, r) ==
    NameResolutionBlockOf(blockType, blockTotalLength, endian, r,
        getTlvList(buf, 8, blockTotalLength - 4, endian))

NameResolutionOptionsOf(buf, blockType, blockTotalLength, endian, r) ==
    NameResolutionBlockOf(blockType, blockTotalLength, endian, r,
        getTlvList(buf, r.lo, blockTotalLength - 4, endian))

ReadNameResolutionBlock(buf, blockType, blockTotalLength, endian) ==
    \* bodyLen := int(blockTotalLength) - 12; body := buf[8 : 8+bodyLen]
    IF blockTotalLength - 12 < 0 \/ blockTotalLength - 4 > Len(buf)
    THEN Parsed("panic", NoBlock, FALSE)
    ELSE NameResolutionOptionsOf(buf, blockType, blockTotalLength, endian,
            getTlvList(buf, 8, blockTotalLength - 4, endian))

\* a reader that keeps the body of an unknown block and drops its framing
ReadGenericBlockBody(buf, blockType, blockTotalLength, endian) ==
    Parsed("block", [t |-> "GenericBlock", Type |-> blockType,
                     TotalLength |-> blockTotalLength,
                     Data |-> Slice(buf, 8, Len(buf) - 4)], FALSE)

ReadGenericBlock(buf, blockType, blockTotalLength, endian) ==
    Parsed("block", [t |-> "GenericBlock", Type |-> blockType,
                     TotalLength |-> blockTotalLength, Data |-> buf], FALSE)

\* the dispatch on blockType
ReadBody(buf, blockType, blockTotalLength, byteOrderMagic, endian) ==
    CASE blockType = SECTION_HEADER_BLOCK ->
            ReadSectionBlock(buf, blockType, blockTotalLength, byteOrderMagic, endian)
      [] blockType = INTERFACE_DESCRIPTION_BLOCK ->
            ReadInterfaceBlock(buf, blockType, blockTotalLength, endian)
      [] blockType = INTERFACE_STATISTICS_BLOCK ->
            ReadInterfaceStatisticsBlock(buf, blockType, blockTotalLength, endian)
      [] blockType = ENHANCED_PACKET_BLOCK ->
            ReadEnhancedPacketBlock(buf, blockType, blockTotalLength, endian)
      [] blockType = NAME_RESOLUTION_BLOCK ->
            ReadNameResolutionBlock(buf, blockType, blockTotalLength, endian)
      [] OTHER -> ReadGenericBlock(buf, blockType, blockTotalLength, endian)

\* the byte order after the byte-order magic of a section header was seen
SectionEndian(byteOrderMagic, endian) ==
    IF byteOrderMagic = SwapMagicNumber THEN BigEndian ELSE endian

(***************************************************************************)
(* Read on the file src with pos bytes consumed and pr.Endian = endian.    *)
(* The result: kind, block, over as above; Endian, the value of pr.Endian  *)
(* when Read ends; n, the number of bytes taken from the file.             *)
(***************************************************************************)
ReadResult(kind, block, endian, n, over) ==
    [kind |-> kind, block |-> block, Endian |-> endian, n |-> n, over |-> over]

\* the block is parsed from the buffer of n bytes
ReadParsed(p, endian, n) == ReadResult(p.kind, p.block, endian, n, p.over)

\* "read the rest of the block": avail bytes of the file follow pos
ReadRest(src, pos, avail, blockType, byteOrderMagic, endian, blockTotalLength) ==
    IF 12 < blockTotalLength /\ avail = 12
    THEN ReadResult("eof", NoBlock, endian, 12, FALSE)
    ELSE IF 12 < blockTotalLength /\ avail < blockTotalLength
    THEN ReadResult("error", NoBlock, endian, avail, FALSE)
    ELSE ReadParsed(ReadBody(Slice(src, pos, pos + Max(12, blockTotalLength)),
                             blockType, blockTotalLength, byteOrderMagic, endian),
                    endian, Max(12, blockTotalLength))

\* a reader that takes any byte-order magic
ReadSectionAnyMagic(src, pos, avail, blockType, endian, byteOrderMagic) ==
    ReadRest(src, pos, avail, blockType, byteOrderMagic,
             SectionEndian(byteOrderMagic, endian),
             GetUint(Slice(src, pos + 4, pos + 8),
                     SectionEndian(byteOrderMagic, endian)))

\* the section header: byteOrderMagic decoded in the byte order so far
ReadSection(src, pos, avail, blockType, endian, byteOrderMagic) ==
    IF byteOrderMagic # SwapMagicNumber /\ byteOrderMagic # MagicNumber
    THEN ReadResult("error", NoBlock, endian, 12, FALSE)
    ELSE ReadRest(src, pos, avail, blockType, byteOrderMagic,
                  SectionEndian(byteOrderMagic, endian),
                  GetUint(Slice(src, pos + 4, pos + 8),
                          SectionEndian(byteOrderMagic, endian)))

\* a reader that goes back to little endian at every block but a section header
ReadTypedResetting(src, pos, avail, endian, blockType) ==
    IF blockType = SECTION_HEADER_BLOCK
    THEN ReadSection(src, pos, avail, blockType, endian,
                     GetUint(Slice(src, pos + 8, pos + 12), endian))
    ELSE ReadRest(src, pos, avail, blockType, 0, LittleEndian,
                  GetUint(Slice(src, pos + 4, pos + 8), LittleEndian))

ReadTyped(src, pos, avail, endian, blockType) ==
    IF blockType = SECTION_HEADER_BLOCK
    THEN ReadSection(src, pos, avail, blockType, endian,
                     GetUint(Slice(src, pos + 8, pos + 12), endian))
    ELSE ReadRest(src, pos, avail, blockType, 0, endian,
                  GetUint(Slice(src, pos + 4, pos + 8), endian))

Read(src, pos, endian) ==
    IF Len(src) - pos = 0 THEN ReadResult("eof", NoBlock, endian, 0, FALSE)
    ELSE IF Len(src) - pos < 12
    THEN ReadResult("error", NoBlock, endian, Len(src) - pos, FALSE)
    ELSE ReadTyped(src, pos, Len(src) - pos, endian,
                   GetUint(Slice(src, pos, pos + 4), endian))

(***************************************************************************)
(* The older reader, src/pcapng/pcapng.go.  Its Read frames a block as     *)
(* above; it decodes the option lists with getRawOptionList, knows the     *)
(* section header, the interface description and the enhanced packet       *)
(* block, and returns a GenericBlock for every other type.                 *)
(***************************************************************************)
RECURSIVE getRawOptionListFrom(_, _, _, _, _, _)
RECURSIVE getRawOptionListStep(_, _, _, _, _, _, _, _)
\* one turn of the loop "for len(options) > 0"
getRawOptionListFrom(buf, lo, hi, endian, optionList, over) ==
    IF hi - lo <= 0 THEN TlvResult("ok", lo, optionList, over)
    \* options[0:2] and options[2:4]: checked against the capacity
    ELSE IF lo + 4 > Len(buf)
         THEN TlvResult("panic", lo, optionList, over \/ (lo + 2 > hi /\ lo + 2 <= Len(buf)))
    ELSE getRawOptionListStep(buf, lo, hi, endian, optionList, over \/ lo + 4 > hi,
                              GetUint(Slice(buf, lo, lo + 2), endian),
                              GetUint(Slice(buf, lo + 2, lo + 4), endian))

\* the rest of the turn, with option.Type and option.Length decoded
getRawOptionListStep(buf, lo, hi, endian, optionList, over, type, length) ==
    \* a length of 0 ends the list, whatever the type
    IF length = 0 THEN TlvResult("ok", lo, optionList, over)
    \* option.Value = options[4 : 4+length]: checked against the capacity
    ELSE IF lo + 4 + length > Len(buf) THEN TlvResult("panic", lo, optionList, TRUE)
    \* options = options[4+paddedLength:]: checked against the length
    ELSE IF lo + 4 + length + Padding(length) > hi
         THEN TlvResult("panic", lo, optionList, over \/ lo + 4 + length > hi)
    ELSE getRawOptionListFrom(buf, lo + 4 + length + Padding(length), hi, endian,
             Append(optionList, [Type |-> type, Length |-> length,
                                 Value |-> Slice(buf, lo + 4, lo + 4 + length)]),
             over)

getRawOptionList(buf, lo, hi, endian) ==
    getRawOptionListFrom(buf, lo, hi, endian, <<>>, FALSE)

ReadSectionBlockRaw(buf, blockType, blockTotalLength, byteOrderMagic, endian) ==
    IF Len(buf) < 24 THEN Parsed("panic", NoBlock, FALSE)
    ELSE IF blockTotalLength - 28 < 0 \/ blockTotalLength - 4 > Len(buf)
         THEN Parsed("panic", NoBlock, FALSE)
    ELSE SectionBlockOf(buf, blockType, blockTotalLength, byteOrderMagic, endian,
            Options("SectionBlock",
                    getRawOptionList(buf, 24, blockTotalLength - 4, endian), endian))

ReadInterfaceBlockRaw(buf, blockType, blockTotalLength, endian) ==
    IF Len(buf) < 16 THEN Parsed("panic", NoBlock, FALSE)
    ELSE IF blockTotalLength - 20 < 0 \/ blockTotalLength - 4 > Len(buf)
         THEN Parsed("panic", NoBlock, FALSE)
    ELSE InterfaceBlockOf(buf, blockType, blockTotalLength, endian,
            Options("InterfaceBlock",
                    getRawOptionList(buf, 16, blockTotalLength - 4, endian), endian))

\* the parser once capturedPacketLength is decoded: the options of the
\* packet go through the switch of the interface description block
ReadEnhancedPacketDataRaw(buf, blockType, blockTotalLength, endian, capturedPacketLength) ==
    \* optionBuf := buf[28+paddedPacketLen : 28+paddedPacketLen+optionLen]
    IF blockTotalLength - (32 + capturedPacketLength + Padding(capturedPacketLength)) < 0
       \/ blockTotalLength - 4 > Len(buf)
    THEN Parsed("panic", NoBlock, FALSE)
    ELSE EnhancedPacketBlockOf(buf, blockType, blockTotalLength, endian,
            capturedPacketLength,
            Options("InterfaceBlock",
                    getRawOptionList(buf,
                               28 + capturedPacketLength + Padding(capturedPacketLength),
                               blockTotalLength - 4, endian), endian))

ReadEnhancedPacketBlockRaw(buf, blockType, blockTotalLength, endian) ==
    \* buf[8:12] ... buf[24:28]
    IF Len(buf) < 28 THEN Parsed("panic", NoBlock, FALSE)
    ELSE ReadEnhancedPacketDataRaw(buf, blockType, blockTotalLength, endian,
                                   GetUint(Slice(buf, 20, 24), endian))

ReadBodyRaw(buf, blockType, blockTotalLength, byteOrderMagic, endian) ==
    CASE blockType = SECTION_HEADER_BLOCK ->
            ReadSectionBlockRaw(buf, blockType, blockTotalLength, byteOrderMagic, endian)
      [] blockType = INTERFACE_DESCRIPTION_BLOCK ->
            ReadInterfaceBlockRaw(buf, blockType, blockTotalLength, endian)
      [] blockType = ENHANCED_PACKET_BLOCK ->
            ReadEnhancedPacketBlockRaw(buf, blockType, blockTotalLength, endian)
      [] OTHER -> ReadGenericBlock(buf, blockType, blockTotalLength, endian)

ReadRestRaw(src, pos, avail, blockType, byteOrderMagic, endian, blockTotalLength) ==
    IF 12 < blockTotalLength /\ avail = 12
    THEN ReadResult("eof", NoBlock, endian, 12, FALSE)
    ELSE IF 12 < blockTotalLength /\ avail < blockTotalLength
    THEN ReadResult("error", NoBlock, endian, avail, FALSE)
    ELSE ReadParsed(ReadBodyRaw(Slice(src, pos, pos + Max(12, blockTotalLength)),
                                blockType, blockTotalLength, byteOrderMagic, endian),
                    endian, Max(12, blockTotalLength))

ReadSectionRaw(src, pos, avail, blockType, endian, byteOrderMagic) ==
    IF byteOrderMagic # SwapMagicNumber /\ byteOrderMagic # MagicNumber
    THEN ReadResult("error", NoBlock, endian, 12, FALSE)
    ELSE ReadRestRaw(src, pos, avail, blockType, byteOrderMagic,
                     SectionEndian(byteOrderMagic, endian),
                     GetUint(Slice(src, pos + 4, pos + 8),
                             SectionEndian(byteOrderMagic, endian)))

ReadTypedRaw(src, pos, avail, endian, blockType) ==
    IF blockType = SECTION_HEADER_BLOCK
    THEN ReadSectionRaw(src, pos, avail, blockType, endian,
                        GetUint(Slice(src, pos + 8, pos + 12), endian))
    ELSE ReadRestRaw(src, pos, avail, blockType, 0, endian,
                     GetUint(Slice(src, pos + 4, pos + 8), endian))

\* Read of src/pcapng/pcapng.go on the file src
ReadRaw(src, pos, endian) ==
    IF Len(src) - pos = 0 THEN ReadResult("eof", NoBlock, endian, 0, FALSE)
    ELSE IF Len(src) - pos < 12
    THEN ReadResult("error", NoBlock, endian, Len(src) - pos, FALSE)
    ELSE ReadTypedRaw(src, pos, Len(src) - pos, endian,
                      GetUint(Slice(src, pos, pos + 4), endian))

(***************************************************************************)
(* The libpcap codec, package pcap.  A uint32 that may reach 2^31, the     *)
(* magic number, is kept as its 4 bytes, most significant first.           *)
(***************************************************************************)
same_endian_usec_magic == <<161, 178, 195, 212>>

swap_endian_usec_magic == <<212, 195, 178, 161>>

same_endian_nsec_magic == <<161, 178, 60, 77>>

swap_endian_nsec_magic == <<77, 60, 178, 161>>

\* binary.Read of an int32
GetI32(s, endian) ==
    IF MsbFirst(s, endian)[1] >= 128
    THEN -1 - Horner(0, [i \in 1..4 |-> 255 - MsbFirst(s, endian)[i]])
    ELSE Horner(0, MsbFirst(s, endian))

\* binary.Write of an int32, two's complement
PutI32(v, endian) ==
    IF v >= 0 THEN PutU32(v, endian)
    ELSE MsbFirst([i \in 1..4 |-> 255 - PutU32(-v - 1, BigEndian)[i]], endian)

\* binary.Write of a PcapHdr
PcapHdr_Pack(h, endian) ==
    MsbFirst(h.MagicNumber, endian) \o PutU16(h.VersionMajor, endian)
        \o PutU16(h.VersionMinor, endian) \o PutI32(h.Thiszone, endian)
        \o PutU32(h.Sigfigs, endian) \o PutU32(h.Snaplen, endian)
        \o PutU32(h.Network, endian)

\* binary.Read of a PcapHdr from the 24 bytes buf
PcapHdr_Unpack(buf, endian) ==
    [MagicNumber |-> MsbFirst(Slice(buf, 0, 4), endian),
     VersionMajor |-> GetUint(Slice(buf, 4, 6), endian),
     VersionMinor |-> GetUint(Slice(buf, 6, 8), endian),
     Thiszone |-> GetI32(Slice(buf, 8, 12), endian),
     Sigfigs |-> GetUint(Slice(buf, 12, 16), endian),
     Snaplen |-> GetUint(Slice(buf, 16, 20), endian),
     Network |-> GetUint(Slice(buf, 20, 24), endian)]

\* what readFileHeader leaves: kind is "reader", "error", or "eof" for the
\* error value io.EOF; n is the number of bytes taken from the file
Opened(kind, header, endian, nanoSecond, n) ==
    [kind |-> kind, Header |-> header, Endian |-> endian,
     NanoSecond |-> nanoSecond, n |-> n]

NoHeader == [MagicNumber |-> <<0, 0, 0, 0>>]

\* a reader that takes the header as decoded in little endian
readFileHeaderUnswapped(buf, header) ==
    CASE header.MagicNumber = same_endian_usec_magic ->
            Opened("reader", header, LittleEndian, FALSE, 24)
      [] header.MagicNumber = swap_endian_usec_magic ->
            Opened("reader", header, BigEndian, FALSE, 24)
      [] header.MagicNumber = same_endian_nsec_magic ->
            Opened("reader", header, LittleEndian, TRUE, 24)
      [] header.MagicNumber = swap_endian_nsec_magic ->
            Opened("reader", header, BigEndian, TRUE, 24)
      [] OTHER -> Opened("error", NoHeader, LittleEndian, FALSE, 24)

\* readFileHeader once the 24 bytes buf are read and decoded in little
\* endian as header
readFileHeaderMagic(buf, header) ==
    CASE header.MagicNumber = same_endian_usec_magic ->
            Opened("reader", header, LittleEndian, FALSE, 24)
      [] header.MagicNumber = swap_endian_usec_magic ->
            Opened("reader", PcapHdr_Unpack(buf, BigEndian), BigEndian, FALSE, 24)
      [] header.MagicNumber = same_endian_nsec_magic ->
            Opened("reader", header, LittleEndian, TRUE, 24)
      [] header.MagicNumber = swap_endian_nsec_magic ->
            Opened("reader", PcapHdr_Unpack(buf, BigEndian), BigEndian, TRUE, 24)
      [] OTHER -> Opened("error", NoHeader, LittleEndian, FALSE, 24)

\* Reader(fh) of package pcap on the file src: readFileHeader, and no
\* reader when it fails
PcapReader(src) ==
    IF Len(src) = 0 THEN Opened("eof", NoHeader, LittleEndian, FALSE, 0)
    ELSE IF Len(src) < 24 THEN Opened("error", NoHeader, LittleEndian, FALSE, Len(src))
    ELSE readFileHeaderMagic(Slice(src, 0, 24),
                             PcapHdr_Unpack(Slice(src, 0, 24), LittleEndian))

\* Write(fh, b, endian): the bytes handed to the sink, which takes them all
Write(b, endian) == Block_Pack(b, endian)

(***************************************************************************)
(* The typed blocks a caller of Write can build.  Str(n) is a string of n  *)
(* letters.  Type is the block type and TotalLength is 0 in a block the    *)
(* caller builds: Pack ignores both.                                       *)
(***************************************************************************)
Str(n) == [i \in 1..n |-> 96 + i]

Strs == {Str(n) : n \in 0..MaxLen}

\* the lists of at most n elements of S
ListsUpTo(S, n) == UNION {[1..k -> S] : k \in 0..n}

Opt_Comment(v) == [t |-> "Opt_Comment", Value |-> v]

Comments == {Opt_Comment(v) : v \in Strs}

SectionOptions ==
    Comments \cup {[t |-> "Shb_Hardware", Value |-> Str(1)],
                   [t |-> "Shb_Os", Value |-> Str(2)],
                   [t |-> "Shb_Userappl", Value |-> Str(1)]}

InterfaceOptions ==
    Comments \cup {[t |-> "If_Name", Value |-> Str(2)],
                   [t |-> "If_Tsresol", Num |-> 6],
                   [t |-> "If_Os", Value |-> Str(1)]}

InterfaceStatisticsOptions ==
    Comments \cup {[t |-> "Isb_Starttime", TimestampHigh |-> 1, TimestampLow |-> 2],
                   [t |-> "Isb_Endtime", TimestampHigh |-> 3, TimestampLow |-> 258]}
             \cup {[t |-> n, Num |-> 300] :
                     n \in {"Isb_Ifrecv", "Isb_Ifdrop", "Isb_Filteraccept",
                            "Isb_Osdrop", "Isb_Usrdeliv"}}

EnhancedPacketOptions ==
    Comments \cup {[t |-> "Epb_Flags", Num |-> 1],
                   [t |-> "Epb_Hash", Value |-> <<2, 7>>],
                   [t |-> "Epb_Dropcount", Num |-> 5],
                   [t |-> "Epb_Packetid", Num |-> 70000],
                   [t |-> "Epb_Queue", Num |-> 2]}

\* an address followed by the bytes of a name
NameResolutionRecords ==
    {[t |-> "Nrb_Record_ipv4", Value |-> <<192, 0, 2, 1, 104>>],
     [t |-> "Nrb_Record_ipv6", Value |-> Zeros(15) \o <<1, 104, 0>>]}

NameResolutionOptions ==
    Comments \cup {[t |-> "Ns_Dnsname", Value |-> Str(2)],
                   [t |-> "Ns_DnsIP4addr", Value |-> <<192, 0, 2, 53>>],
                   [t |-> "Ns_DnsIP6addr", Value |-> Zeros(15) \o <<53>>]}

SectionBlock(options) ==
    [t |-> "SectionBlock", Type |-> SECTION_HEADER_BLOCK, TotalLength |-> 0,
     ByteOrderMagic |-> MagicNumber, MajorVersion |-> 1, MinorVersion |-> 0,
     SectionLength |-> -1, Options |-> options]

InterfaceBlock(options) ==
    [t |-> "InterfaceBlock", Type |-> INTERFACE_DESCRIPTION_BLOCK, TotalLength |-> 0,
     LinkType |-> 1, SnapLen |-> 65535, Options |-> options]

InterfaceStatisticsBlock(options) ==
    [t |-> "InterfaceStatisticsBlock", Type |-> INTERFACE_STATISTICS_BLOCK,
     TotalLength |-> 0, InterfaceID |-> 0, TimestampHigh |-> 5, TimestampLow |-> 1027,
     Options |-> options]

EnhancedPacketBlock(data, options) ==
    [t |-> "EnhancedPacketBlock", Type |-> ENHANCED_PACKET_BLOCK, TotalLength |-> 0,
     InterfaceID |-> 0, TimestampHigh |-> 5, TimestampLow |-> 1027,
     CapturedPacketLength |-> Len(data), OriginalPacketLength |-> Len(data) + 1,
     PacketData |-> data, Options |-> options]

NameResolutionBlock(records, options) ==
    [t |-> "NameResolutionBlock", Type |-> NAME_RESOLUTION_BLOCK, TotalLength |-> 0,
     Records |-> records, Options |-> options]

\* packet data of n bytes
Packet(n) == [i \in 1..n |-> 221 + i]

TypedBlocks ==
    {SectionBlock(o) : o \in ListsUpTo(SectionOptions, MaxOpts)}
    \cup {InterfaceBlock(o) : o \in ListsUpTo(InterfaceOptions, MaxOpts)}
    \cup {InterfaceStatisticsBlock(o) : o \in ListsUpTo(InterfaceStatisticsOptions, MaxOpts)}
    \cup {EnhancedPacketBlock(Packet(n), o) :
            n \in 0..MaxLen, o \in ListsUpTo(EnhancedPacketOptions, MaxOpts)}
    \cup {NameResolutionBlock(r, o) :
            r \in ListsUpTo(NameResolutionRecords, MaxOpts),
            o \in ListsUpTo(NameResolutionOptions, MaxOpts)}

(***************************************************************************)
(* A sample of typed blocks for files of several blocks: every kind of     *)
(* block, and every type of option and record, occurs in it.               *)
(***************************************************************************)
SampleSections ==
    {SectionBlock(<<>>),
     SectionBlock(<<Opt_Comment(Str(1)), [t |-> "Shb_Hardware", Value |-> Str(2)],
                    [t |-> "Shb_Os", Value |-> Str(3)],
                    [t |-> "Shb_Userappl", Value |-> Str(4)]>>)}

SampleBlocks ==
    {InterfaceBlock(<<>>),
     InterfaceBlock(<<[t |-> "If_Name", Value |-> Str(4)], [t |-> "If_Tsresol", Num |-> 6],
                      Opt_Comment(<<>>), [t |-> "If_Os", Value |-> Str(5)]>>),
     InterfaceStatisticsBlock(<<>>),
     InterfaceStatisticsBlock(
        <<[t |-> "Isb_Starttime", TimestampHigh |-> 1, TimestampLow |-> 2],
          [t |-> "Isb_Endtime", TimestampHigh |-> 3, TimestampLow |-> 258],
          [t |-> "Isb_Ifrecv", Num |-> 300], [t |-> "Isb_Ifdrop", Num |-> 1],
          [t |-> "Isb_Filteraccept", Num |-> 2], [t |-> "Isb_Osdrop", Num |-> 3],
          [t |-> "Isb_Usrdeliv", Num |-> 4]>>),
     EnhancedPacketBlock(<<>>, <<>>),
     EnhancedPacketBlock(<<222, 173, 190, 239, 1>>, <<Opt_Comment(<<104, 105>>)>>),
     EnhancedPacketBlock(Packet(2), <<[t |-> "Epb_Flags", Num |-> 1],
                                      [t |-> "Epb_Queue", Num |-> 2]>>),
     EnhancedPacketBlock(Packet(1), <<[t |-> "Epb_Dropcount", Num |-> 5]>>),
     EnhancedPacketBlock(Packet(3), <<[t |-> "Epb_Packetid", Num |-> 70000]>>),
     EnhancedPacketBlock(Packet(4), <<[t |-> "Epb_Hash", Value |-> <<2, 7>>]>>),
     NameResolutionBlock(<<>>, <<>>),
     NameResolutionBlock(<<[t |-> "Nrb_Record_ipv4", Value |-> <<192, 0, 2, 1, 104>>]>>,
                         <<[t |-> "Ns_Dnsname", Value |-> <<110, 115>>]>>),
     NameResolutionBlock(<<[t |-> "Nrb_Record_ipv6", Value |-> Zeros(15) \o <<1, 104, 0>>]>>,
                         <<[t |-> "Ns_DnsIP4addr", Value |-> <<192, 0, 2, 53>>],
                           [t |-> "Ns_DnsIP6addr", Value |-> Zeros(15) \o <<53>>]>>)}

(***************************************************************************)
(* Blocks of other producers: a block the package cannot build (an unknown *)
(* type, an unknown option) or a malformed one.  Frame lays out the type,  *)
(* the leading length lead, the body and the trailing length trail.        *)
(***************************************************************************)
Frame(type, lead, body, trail, endian) ==
    PutU32(type, endian) \o PutU32(lead, endian) \o body \o PutU32(trail, endian)

\* a well-framed block: both lengths are the length of the block
Framed(type, body, endian) == Frame(type, 12 + Len(body), body, 12 + Len(body), endian)

\* one raw TLV with its padding
RawTlv(code, value, endian) ==
    LET buf == PutU16(code, endian) \o PutU16(Len(value), endian) \o value
    IN  buf \o Zeros(Padding(Len(buf)))

InterfaceBody(region, endian) ==
    PutU16(1, endian) \o PutU16(0, endian) \o PutU32(65535, endian) \o region

PacketBody(capLen, rest, endian) ==
    PutU32(0, endian) \o PutU32(5, endian) \o PutU32(1027, endian)
    \o PutU32(capLen, endian) \o PutU32(capLen, endian) \o rest

SectionBody(magic, rest, endian) ==
    PutU32(magic, endian) \o PutU16(1, endian) \o PutU16(0, endian)
    \o PutI64(-1, endian) \o rest

\* the foreign blocks, by name, in the byte order endian
ForeignBlock(name, endian) ==
    CASE name = "unknown" -> Framed(9, <<170, 187, 204, 221>>, endian)
      [] name = "unknownEmpty" -> Framed(3, <<>>, endian)
      [] name = "unknownOdd" -> Framed(9, <<170>>, endian)
      [] name = "lengthEight" -> Frame(9, 8, <<>>, 8, endian)
      [] name = "sectionSixteen" ->
            Frame(SECTION_HEADER_BLOCK, 16, PutU32(MagicNumber, endian), 16, endian)
      [] name = "sectionBadMagic" ->
            Framed(SECTION_HEADER_BLOCK, SectionBody(7, <<>>, endian), endian)
      [] name = "trailerDiffers" ->
            Frame(INTERFACE_DESCRIPTION_BLOCK, 20, InterfaceBody(<<>>, endian), 24, endian)
      [] name = "unknownTrailerDiffers" ->
            Frame(9, 16, <<170, 187, 204, 221>>, 20, endian)
      [] name = "packetTooLong" ->
            Framed(ENHANCED_PACKET_BLOCK, PacketBody(8, <<>>, endian), endian)
      [] name = "packetIntoTrailer" ->
            Framed(ENHANCED_PACKET_BLOCK, PacketBody(1, <<>>, endian), endian)
      [] name = "packetNoRoom" ->
            Framed(ENHANCED_PACKET_BLOCK,
                   PutU32(0, endian) \o PutU32(5, endian) \o PutU32(1027, endian)
                   \o PutU32(0, endian), endian)
      [] name = "unknownOption" ->
            Framed(INTERFACE_DESCRIPTION_BLOCK,
                   InterfaceBody(RawTlv(opt_comment, Str(1), endian)
                                 \o RawTlv(8, PutU64(1000, endian), endian)
                                 \o RawTlv(if_name, Str(2), endian)
                                 \o RawTlv(opt_endofopt, <<>>, endian), endian), endian)
      [] name = "unknownRecord" ->
            Framed(NAME_RESOLUTION_BLOCK,
                   RawTlv(3, <<1, 2, 3, 4>>, endian)
                   \o RawTlv(nrb_record_end, <<>>, endian), endian)
      [] name = "optionTooLong" ->
            Framed(INTERFACE_DESCRIPTION_BLOCK,
                   InterfaceBody(PutU16(opt_comment, endian) \o PutU16(8, endian), endian),
                   endian)
      [] name = "tsresolEmpty" ->
            Framed(INTERFACE_DESCRIPTION_BLOCK,
                   InterfaceBody(RawTlv(if_tsresol, <<>>, endian)
                                 \o RawTlv(opt_endofopt, <<>>, endian), endian), endian)

\* the foreign blocks that are section headers: they may open a file
ForeignSections == {"sectionSixteen", "sectionBadMagic"}

ForeignNames ==
    ForeignSections \cup
    {"unknown", "unknownEmpty", "unknownOdd", "lengthEight", "trailerDiffers",
     "unknownTrailerDiffers", "packetTooLong", "packetIntoTrailer", "packetNoRoom",
     "unknownOption", "unknownRecord", "optionTooLong", "tsresolEmpty"}

\* the option regions (or name-resolution bodies) of a foreign block
RegionBytes == {0, 1, 9}

Regions == UNION {[1..k -> RegionBytes] : k \in 0..MaxRegion}

(***************************************************************************)
(* The state: a producer writes a capture file block by block, and the     *)
(* copy tool (copypcapng) then reads it with a PcapngReader and writes     *)
(* every block it gets to the output with a PcapngWriter.                  *)
(***************************************************************************)
VARIABLES
    pc,        \* "produce", then the copy loop: "read", "write", "done"
    file,      \* the bytes of the input file
    made,      \* what the producer wrote: block or name, byte order, offset, length
    wEndian,   \* the byte order of the producer's current section
    pos,       \* the number of bytes the reader has taken from the file
    prEndian,  \* pr.Endian
    reads,     \* the results of the calls of Read, each with the offset it began at
    out        \* the byte strings the copy tool wrote, one per call of Write

vars == <<pc, file, made, wEndian, pos, prEndian, reads, out>>

\* Reader(fh) and Writer(fh): both start in little endian
Reader == LittleEndian

Writer == LittleEndian

Init ==
    /\ pc = "produce"
    /\ file = <<>>
    /\ made = <<>>
    /\ wEndian = LittleEndian
    /\ pos = 0
    /\ prEndian = Reader
    /\ reads = <<>>
    /\ out = <<>>

\* the producer appends the bytes of one block to the file
Emit(typed, block, name, endian, bytes) ==
    /\ pc = "produce"
    /\ Len(made) < MaxBlocks
    /\ file' = file \o bytes
    /\ made' = Append(made, [typed |-> typed, block |-> block, name |-> name,
                             endian |-> endian, at |-> Len(file), len |-> Len(bytes)])
    /\ wEndian' = endian
    /\ UNCHANGED <<pc, pos, prEndian, reads, out>>

\* Write of a section header, which opens a section in a byte order
WriteSection ==
    \E b \in SampleSections, endian \in ByteOrders :
        Emit(TRUE, b, "", endian, Write(b, endian))

\* Write of another block of the section
WriteBlock ==
    /\ made # <<>>
    /\ \E b \in SampleBlocks : Emit(TRUE, b, "", wEndian, Write(b, wEndian))

\* a foreign section header, in a byte order
WriteForeignSection ==
    \E name \in ForeignSections, endian \in ByteOrders :
        Emit(FALSE, NoBlock, name, endian, ForeignBlock(name, endian))

\* another foreign block of the section
WriteForeign ==
    /\ made # <<>>
    /\ \E name \in ForeignNames \ ForeignSections :
          Emit(FALSE, NoBlock, name, wEndian, ForeignBlock(name, wEndian))

\* the file is complete; the copy tool opens it
CloseFile ==
    /\ pc = "produce"
    /\ made # <<>>
    /\ pc' = "read"
    /\ UNCHANGED <<file, made, wEndian, pos, prEndian, reads, out>>

\* block, err := pr.Read(): io.EOF ends the loop, another error panics
ReaderRead ==
    /\ pc = "read"
    /\ reads' = Append(reads, [at |-> pos, r |-> Read(file, pos, prEndian)])
    /\ pos' = pos + reads'[Len(reads')].r.n
    /\ prEndian' = reads'[Len(reads')].r.Endian
    /\ pc' = IF reads'[Len(reads')].r.kind = "block" THEN "write" ELSE "done"
    /\ UNCHANGED <<file, made, wEndian, out>>

\* a copy loop that writes the blocks it knows and drops a GenericBlock
CopierWriteKnown ==
    /\ pc = "write"
    /\ out' = IF reads[Len(reads)].r.block.t = "GenericBlock" THEN out
              ELSE Append(out, Write(reads[Len(reads)].r.block, Writer))
    /\ pc' = "read"
    /\ UNCHANGED <<file, made, wEndian, pos, prEndian, reads>>

\* pw.Write(b) of the block just read, whatever its kind
CopierWrite ==
    /\ pc = "write"
    /\ out' = Append(out, Write(reads[Len(reads)].r.block, Writer))
    /\ pc' = "read"
    /\ UNCHANGED <<file, made, wEndian, pos, prEndian, reads>>

Next ==
    \/ WriteSection
    \/ WriteBlock
    \/ WriteForeignSection
    \/ WriteForeign
    \/ CloseFile
    \/ ReaderRead
    \/ CopierWrite

Spec == Init /\ [][Next]_vars

(***************************************************************************)
(* Files of one section header and one typed block, the block drawn from   *)
(* all of TypedBlocks.                                                     *)
(***************************************************************************)
WriteHeader ==
    /\ made = <<>>
    /\ \E endian \in ByteOrders :
          Emit(TRUE, SectionBlock(<<>>), "", endian, Write(SectionBlock(<<>>), endian))

WriteTyped ==
    /\ Len(made) = 1
    /\ \E b \in TypedBlocks : Emit(TRUE, b, "", wEndian, Write(b, wEndian))

NextTyped ==
    \/ WriteHeader
    \/ WriteTyped
    \/ CloseFile
    \/ ReaderRead
    \/ CopierWrite

SpecTyped == Init /\ [][NextTyped]_vars

(***************************************************************************)
(* Files of one foreign block, an interface description or a name          *)
(* resolution block, whose option region (or body) is drawn from Regions.  *)
(***************************************************************************)
WriteRegion ==
    /\ made = <<>>
    /\ \E region \in Regions :
          \/ Emit(FALSE, NoBlock, "interfaceRegion", LittleEndian,
                  Framed(INTERFACE_DESCRIPTION_BLOCK,
                         InterfaceBody(region, LittleEndian), LittleEndian))
          \/ Emit(FALSE, NoBlock, "nameResolutionRegion", LittleEndian,
                  Framed(NAME_RESOLUTION_BLOCK, region, LittleEndian))

NextRegion ==
    \/ WriteRegion
    \/ CloseFile
    \/ ReaderRead
    \/ CopierWrite

SpecRegion == Init /\ [][NextRegion]_vars

(***************************************************************************)
(* Files of one section header and one interface description block with    *)
(* one string option whose value is about as long as a 16-bit length       *)
(* field can tell.                                                         *)
(***************************************************************************)
\* the largest uint16
MaxUint16 == 65535

LongLens == {MaxUint16 - 2, MaxUint16 - 1, MaxUint16, MaxUint16 + 1, MaxUint16 + 2}

\* a string of n letters
LongStr(n) == [i \in 1..n |-> 97 + (i % 26)]

LongOptions ==
    {[t |-> t, Value |-> LongStr(n)] : t \in {"Opt_Comment", "If_Name", "If_Os"},
                                      n \in LongLens}

WriteLong ==
    /\ Len(made) = 1
    /\ \E o \in LongOptions :
          Emit(TRUE, InterfaceBlock(<<o>>), "", wEndian,
               Write(InterfaceBlock(<<o>>), wEndian))

NextLong ==
    \/ WriteHeader
    \/ WriteLong
    \/ CloseFile
    \/ ReaderRead
    \/ CopierWrite

SpecLong == Init /\ [][NextLong]_vars

(***************************************************************************)
(* Files written by Write that lost their last bytes: the last block is    *)
(* cut short by 1 byte or more, but not wholly.                            *)
(***************************************************************************)
Truncate ==
    /\ pc = "produce"
    /\ made # <<>>
    /\ \E k \in 1..(made[Len(made)].len - 1) :
          file' = SubSeq(file, 1, Len(file) - k)
    /\ pc' = "read"
    /\ UNCHANGED <<made, wEndian, pos, prEndian, reads, out>>

NextTruncated ==
    \/ WriteSection
    \/ WriteBlock
    \/ Truncate
    \/ CloseFile
    \/ ReaderRead
    \/ CopierWrite

SpecTruncated == Init /\ [][NextTruncated]_vars

(***************************************************************************)
(* The same files read by either reader of the repository: the reader of   *)
(* the copy tool, or the older reader of src/pcapng/pcapng.go, which a     *)
(* caller runs until Read returns no block.                                *)
(***************************************************************************)
\* the file is complete; it is opened with the Reader of src/pcapng/pcapng.go
OpenRaw ==
    /\ pc = "produce"
    /\ made # <<>>
    /\ pc' = "readRaw"
    /\ UNCHANGED <<file, made, wEndian, pos, prEndian, reads, out>>

\* block, err := pr.Read() of the older reader
RawReaderRead ==
    /\ pc = "readRaw"
    /\ reads' = Append(reads, [at |-> pos, r |-> ReadRaw(file, pos, prEndian)])
    /\ pos' = pos + reads'[Len(reads')].r.n
    /\ prEndian' = reads'[Len(reads')].r.Endian
    /\ pc' = IF reads'[Len(reads')].r.kind = "block" THEN "readRaw" ELSE "done"
    /\ UNCHANGED <<file, made, wEndian, out>>

NextReaders ==
    \/ WriteSection
    \/ WriteBlock
    \/ WriteForeignSection
    \/ WriteForeign
    \/ CloseFile
    \/ ReaderRead
    \/ CopierWrite
    \/ OpenRaw
    \/ RawReaderRead

SpecReaders == Init /\ [][NextReaders]_vars

(***************************************************************************)
(* libpcap files: a file header of either byte order, with a good or a bad *)
(* magic number, whole, cut short, or followed by a byte, opened with the  *)
(* Reader of package pcap.                                                 *)
(***************************************************************************)
PcapMagics ==
    {same_endian_usec_magic, same_endian_nsec_magic,
     <<161, 178, 195, 213>>, <<0, 0, 0, 0>>}

PcapHeaders ==
    [MagicNumber : PcapMagics, VersionMajor : {2}, VersionMinor : {4},
     Thiszone : {0, -1}, Sigfigs : {0}, Snaplen : {65535, 96}, Network : {1, 101}]

\* the lengths of the files: none, some or all of the 24 header bytes, or
\* one byte more
PcapFileLens == {0, 1, 23, 24, 25}

\* a file of len bytes that begins with the header h in the byte order endian
PcapFile ==
    /\ pc = "produce"
    /\ made = <<>>
    /\ \E h \in PcapHeaders, endian \in ByteOrders, len \in PcapFileLens :
          /\ file' = SubSeq(PcapHdr_Pack(h, endian) \o <<7>>, 1, len)
          /\ made' = <<[hdr |-> h, endian |-> endian, len |-> len]>>
    /\ pc' = "pcapOpen"
    /\ UNCHANGED <<wEndian, pos, prEndian, reads, out>>

\* pr, err := pcap.Reader(fh)
PcapOpen ==
    /\ pc = "pcapOpen"
    /\ reads' = <<[at |-> 0, r |-> PcapReader(file)]>>
    /\ pos' = reads'[1].r.n
    /\ prEndian' = reads'[1].r.Endian
    /\ pc' = IF reads'[1].r.kind = "reader" THEN "pcapRead" ELSE "done"
    /\ UNCHANGED <<file, made, wEndian, out>>

NextPcap ==
    \/ PcapFile
    \/ PcapOpen

SpecPcap == Init /\ [][NextPcap]_vars

(***************************************************************************)
(* The sink of a writer.  One call fh.Write(p) of an io.Writer answers the *)
(* number of bytes it accepted and an error or none; o says how many of    *)
(* the last bytes of p this call refuses and whether it reports an error.  *)
(***************************************************************************)
SinkOutcomes == [short : {0, 1}, err : BOOLEAN]

fh_Write(p, o) == [len |-> Len(p), n |-> Max(0, Len(p) - o.short), err |-> o.err]

\* the bytes of the calls that the sink accepted
Accepted(p, o) == SubSeq(p, 1, fh_Write(p, o).n)

\* binary.Write(fh, endian, data): the bytes go to fh.Write, and of its answer
\* the error alone is returned
binary_Write(p, o) == IF fh_Write(p, o).err THEN "error" ELSE "nil"

\* Write(fh, b, endian) of pcapng on the bytes buf of b.Pack(endian)
Write_err(buf, o) ==
    IF fh_Write(buf, o).err THEN "error"
    ELSE IF fh_Write(buf, o).n # Len(buf) THEN "PcapError"
    ELSE "nil"

\* the header that Writer of package pcap gives a new file
PcapWriter_Header ==
    [MagicNumber |-> same_endian_usec_magic, VersionMajor |-> 2, VersionMinor |-> 4,
     Thiszone |-> 0, Sigfigs |-> 0, Snaplen |-> 65535, Network |-> 1]

\* Writer(fh) of package pcap: the bytes handed to the sink and the answer
PcapWriter(o) ==
    [op |-> "Writer",
     bytes |-> Accepted(PcapHdr_Pack(PcapWriter_Header, LittleEndian), o),
     calls |-> <<fh_Write(PcapHdr_Pack(PcapWriter_Header, LittleEndian), o)>>,
     result |-> binary_Write(PcapHdr_Pack(PcapWriter_Header, LittleEndian), o)]

PcapRecHdr_Pack(h, endian) ==
    PutU32(h.TsSec, endian) \o PutU32(h.TsUsec, endian)
        \o PutU32(h.InclLen, endian) \o PutU32(h.OrigLen, endian)

\* a timestamp integer + eighths/8 seconds with integer below 2^32: a float64
\* holds it exactly, and so are its two parts, the product of the fraction
\* and 1000000, and their conversions to uint32
PcapRecHdrOf(ts, pkt) ==
    [TsSec |-> ts.integer, TsUsec |-> ts.eighths * 125000,
     InclLen |-> Len(pkt), OrigLen |-> Len(pkt)]

PcapWriter_WriteResult(hdr, pkt, o1, o2) ==
    IF binary_Write(hdr, o1) # "nil" THEN "error"
    ELSE IF fh_Write(pkt, o2).err THEN "error"
    ELSE IF fh_Write(pkt, o2).n # Len(pkt) THEN "PcapError"
    ELSE "nil"

\* a Write that fills the payload up to a 32-bit boundary
PcapWriter_WritePadded(hdr, pkt, o1, o2) ==
    [op |-> "PcapWrite",
     bytes |-> Accepted(hdr, o1) \o Accepted(pkt, o2) \o Zeros(Padding(Len(pkt))),
     calls |-> <<fh_Write(hdr, o1), fh_Write(pkt, o2)>>,
     result |-> PcapWriter_WriteResult(hdr, pkt, o1, o2)]

\* pw.Write(ts, pkt) of package pcap: the record header goes to the sink
\* through binary.Write with the answer o1, the payload with the answer o2
PcapWriter_Write(hdr, pkt, o1, o2) ==
    [op |-> "PcapWrite",
     bytes |-> IF binary_Write(hdr, o1) # "nil" THEN Accepted(hdr, o1)
               ELSE Accepted(hdr, o1) \o Accepted(pkt, o2),
     calls |-> IF binary_Write(hdr, o1) # "nil" THEN <<fh_Write(hdr, o1)>>
               ELSE <<fh_Write(hdr, o1), fh_Write(pkt, o2)>>,
     result |-> PcapWriter_WriteResult(hdr, pkt, o1, o2)]

Timestamps == [integer : {0, 1, 70000}, eighths : {0, 4, 7}]

PcapPackets == {<<>>, Packet(1), Packet(3)}

(***************************************************************************)
(* Writers on a sink that may refuse bytes: blocks written with Write of   *)
(* pcapng, or a libpcap file opened with Writer and records written to it. *)
(* file holds the bytes the sink accepted, made the calls and the answers. *)
(***************************************************************************)
SinkWrite ==
    /\ pc = "produce"
    /\ Len(made) < MaxBlocks
    /\ \E b \in SampleSections \cup SampleBlocks, endian \in ByteOrders, o \in SinkOutcomes :
          /\ file' = file \o Accepted(Write(b, endian), o)
          /\ made' = Append(made, [op |-> "Write", bytes |-> Accepted(Write(b, endian), o),
                                   calls |-> <<fh_Write(Write(b, endian), o)>>,
                                   result |-> Write_err(Write(b, endian), o)])
    /\ UNCHANGED <<pc, wEndian, pos, prEndian, reads, out>>

PcapWriterOpen ==
    /\ pc = "produce"
    /\ made = <<>>
    /\ \E o \in SinkOutcomes :
          /\ file' = PcapWriter(o).bytes
          /\ made' = <<PcapWriter(o)>>
          /\ pc' = IF PcapWriter(o).result = "nil" THEN "pcapWrite" ELSE "done"
    /\ UNCHANGED <<wEndian, pos, prEndian, reads, out>>

PcapWrite ==
    /\ pc = "pcapWrite"
    /\ Len(made) <= MaxBlocks
    /\ \E ts \in Timestamps, pkt \in PcapPackets, o1 \in SinkOutcomes, o2 \in SinkOutcomes :
          /\ file' = file \o PcapWriter_Write(PcapRecHdr_Pack(PcapRecHdrOf(ts, pkt), LittleEndian),
                                             pkt, o1, o2).bytes
          /\ made' = Append(made, PcapWriter_Write(
                                     PcapRecHdr_Pack(PcapRecHdrOf(ts, pkt), LittleEndian),
                                     pkt, o1, o2))
    /\ UNCHANGED <<pc, wEndian, pos, prEndian, reads, out>>

NextSink ==
    \/ SinkWrite
    \/ PcapWriterOpen
    \/ PcapWrite

SpecSink == Init /\ [][NextSink]_vars

(***************************************************************************)
(* Records of a libpcap file.  One call fh.Read(p) on a file delivers the  *)
(* bytes that are left, at most len(p) of them and, when the source hands  *)
(* its data out in pieces, at most chunk of them (chunk 0: no such limit). *)
(* A call for no byte delivers none without an error; a call for some at   *)
(* the end of the file answers io.EOF.                                     *)
(***************************************************************************)
fh_Read(want, avail, chunk) ==
    [count |-> IF chunk = 0 THEN Min(want, avail) ELSE Min(Min(want, avail), chunk),
     eof |-> want > 0 /\ avail = 0]

PcapRecHdr_Unpack(buf, endian) ==
    [TsSec |-> GetUint(Slice(buf, 0, 4), endian), TsUsec |-> GetUint(Slice(buf, 4, 8), endian),
     InclLen |-> GetUint(Slice(buf, 8, 12), endian), OrigLen |-> GetUint(Slice(buf, 12, 16), endian)]

\* float64(TsSec) + float64(TsUsec)/unit, for a fraction that is a number of
\* eighths of a second and seconds below 2^32: the quotient and the sum are
\* exact in a float64, the value integer + eighths/8
PcapTimestamp(header, nanoSecond) ==
    [integer |-> header.TsSec
                    + (header.TsUsec \div (IF nanoSecond THEN 125000000 ELSE 125000)) \div 8,
     eighths |-> (header.TsUsec \div (IF nanoSecond THEN 125000000 ELSE 125000)) % 8]

NoTimestamp == [integer |-> 0, eighths |-> 0]

\* the answer of pr.Read(): kind is "record", "eof" (err is io.EOF) or
\* "error" (another error); n counts the bytes taken from the source
PcapRecord(kind, ts, pkt, header, n) ==
    [kind |-> kind, ts |-> ts, pkt |-> pkt, header |-> header, n |-> n]

\* the packet bytes of pr.Read(), after the record header was decoded
PcapReader_ReadPacket(src, off, header, nanoSecond, avail, c2) ==
    IF fh_Read(header.InclLen, avail, c2).eof
    THEN PcapRecord("eof", NoTimestamp, <<>>, header, 16)
    ELSE IF fh_Read(header.InclLen, avail, c2).count # header.InclLen
    THEN PcapRecord("error", NoTimestamp, <<>>, header,
                    16 + fh_Read(header.InclLen, avail, c2).count)
    ELSE PcapRecord("record", PcapTimestamp(header, nanoSecond),
                    Slice(src, off + 16, off + 16 + header.InclLen), header,
                    16 + header.InclLen)

\* pr.Read() on a source that delivers at most c1 bytes of the record header
\* and at most c2 bytes of the packet in one call
PcapReader_ReadFrom(src, off, endian, nanoSecond, c1, c2) ==
    IF fh_Read(16, Len(src) - off, c1).eof
    THEN PcapRecord("eof", NoTimestamp, <<>>, <<>>, 0)
    ELSE IF fh_Read(16, Len(src) - off, c1).count # 16
    THEN PcapRecord("error", NoTimestamp, <<>>, <<>>, fh_Read(16, Len(src) - off, c1).count)
    ELSE PcapReader_ReadPacket(src, off, PcapRecHdr_Unpack(Slice(src, off, off + 16), endian),
                               nanoSecond, Len(src) - off - 16, c2)

\* pr.Read() on a file, which delivers every byte asked for that it has
PcapReader_Read(src, off, endian, nanoSecond) ==
    PcapReader_ReadFrom(src, off, endian, nanoSecond, 0, 0)

(***************************************************************************)
(* A libpcap file with records, read record by record and copied: the      *)
(* copy opens a writer on the output and hands it every record read.       *)
(* The sink of the copy accepts every byte.                                *)
(***************************************************************************)
\* the seconds and the eighths of a second of the records, and their packets
PcapSeconds == {0, 1000000000}

PcapEighths == {0, 4}

PcapPayloads == {<<>>, <<65, 66, 67, 68>>, Packet(1)}

\* the bytes of a record are all there, or the file ends after cut of them
PcapCuts(len) == {len, 15, 16, len - 1} \cap 1..len

TakesAll == [short |-> 0, err |-> FALSE]

\* the header of the file is the one Writer gives but for its magic
WriterLike(h) ==
    /\ h.MagicNumber \in {same_endian_usec_magic, same_endian_nsec_magic}
    /\ [h EXCEPT !.MagicNumber = same_endian_usec_magic] = PcapWriter_Header

\* one more record at the end of a file whose records so far are whole
PcapAppend ==
    /\ pc = "pcapOpen"
    /\ Len(made) <= MaxBlocks
    /\ made[1].len = 24
    /\ WriterLike(made[1].hdr)
    /\ IF Len(made) = 1 THEN TRUE ELSE made[Len(made)].len = made[Len(made)].whole
    /\ \E sec \in PcapSeconds, e \in PcapEighths, pkt \in PcapPayloads :
          \E cut \in PcapCuts(16 + Len(pkt)) :
             /\ file' = file \o SubSeq(
                           PcapRecHdr_Pack(
                              [TsSec |-> sec,
                               TsUsec |-> e * (IF made[1].hdr.MagicNumber = same_endian_nsec_magic
                                               THEN 125000000 ELSE 125000),
                               InclLen |-> Len(pkt), OrigLen |-> Len(pkt)],
                              made[1].endian) \o pkt, 1, cut)
             /\ made' = Append(made, [sec |-> sec, eighths |-> e, pkt |-> pkt,
                                      at |-> Len(file), len |-> cut,
                                      whole |-> 16 + Len(pkt)])
    /\ UNCHANGED <<pc, wEndian, pos, prEndian, reads, out>>

\* pw, err := pcap.Writer(wfh), once the reader is open
PcapCopyOpen ==
    /\ pc = "pcapRead"
    /\ out = <<>>
    /\ out' = <<PcapWriter(TakesAll).bytes>>
    /\ UNCHANGED <<pc, file, made, wEndian, pos, prEndian, reads>>

\* ts, pkt, err := pr.Read()
PcapRead ==
    /\ pc = "pcapRead"
    /\ out # <<>>
    /\ reads' = Append(reads, [at |-> pos,
                               r |-> PcapReader_Read(file, pos, prEndian,
                                                     reads[1].r.NanoSecond)])
    /\ pos' = pos + reads'[Len(reads')].r.n
    /\ pc' = IF reads'[Len(reads')].r.kind = "record" THEN "pcapCopy" ELSE "done"
    /\ UNCHANGED <<file, made, wEndian, prEndian, out>>

\* err = pw.Write(ts, pkt) of the record just read
PcapCopy ==
    /\ pc = "pcapCopy"
    /\ out' = Append(out, PcapWriter_Write(
                             PcapRecHdr_Pack(PcapRecHdrOf(reads[Len(reads)].r.ts,
                                                          reads[Len(reads)].r.pkt),
                                             LittleEndian),
                             reads[Len(reads)].r.pkt, TakesAll, TakesAll).bytes)
    /\ pc' = "pcapRead"
    /\ UNCHANGED <<file, made, wEndian, pos, prEndian, reads>>

NextPcapCopy ==
    \/ PcapFile
    \/ PcapAppend
    \/ PcapOpen
    \/ PcapCopyOpen
    \/ PcapRead
    \/ PcapCopy

SpecPcapCopy == Init /\ [][NextPcapCopy]_vars

(***************************************************************************)
(* The packers of src/pcapng/pcapng.go, the older package: its option      *)
(* packers, packOptions and the Pack of its enhanced packet block.         *)
(***************************************************************************)
packStringOption(optionType, optionValue, endian) ==
    PutU16(optionType, endian) \o PutU16(Len(optionValue) % 65536, endian) \o optionValue
        \o Zeros(Padding(4 + Len(optionValue)))

\* opt.Pack(endian) of the option types of src/pcapng/pcapng.go
Option_PackOlder(opt, endian) ==
    CASE opt.t = "Opt_Comment" -> packStringOption(opt_comment, opt.Value, endian)
      [] opt.t = "Shb_Hardware" -> packStringOption(shb_hardware, opt.Value, endian)
      [] opt.t = "Shb_Os" -> packStringOption(shb_os, opt.Value, endian)
      [] opt.t = "Shb_Userappl" -> packStringOption(shb_userappl, opt.Value, endian)
      [] opt.t = "If_Name" -> packStringOption(if_name, opt.Value, endian)
      [] opt.t = "If_Os" -> packStringOption(if_os, opt.Value, endian)
      [] opt.t = "If_Tsresol" ->
            PutU16(if_tsresol, endian) \o PutU16(1, endian) \o PutU8(opt.Num) \o Zeros(3)

RECURSIVE PackEachOlder(_, _)
PackEachOlder(list, endian) ==
    IF list = <<>> THEN <<>>
    ELSE Option_PackOlder(Head(list), endian) \o PackEachOlder(Tail(list), endian)

packOptionsOlder(options, endian) ==
    IF Len(options) > 0
    THEN PackEachOlder(options, endian) \o PutU16(opt_endofopt, endian) \o PutU16(0, endian)
    ELSE <<>>

\* b.Pack(endian) of the EnhancedPacketBlock of src/pcapng/pcapng.go: the
\* packed options are counted in blockTotalLength, and the buffer gets the
\* prefix, the packet, its padding and blockTotalLength again
EnhancedPacketBlock_PackOlder(b, endian) ==
    PutU32(ENHANCED_PACKET_BLOCK, endian)
        \o PutU32(32 + Len(b.PacketData) + Padding(Len(b.PacketData))
                     + Len(packOptionsOlder(b.Options, endian)), endian)
        \o PutU32(b.InterfaceID, endian) \o PutU32(b.TimestampHigh, endian)
        \o PutU32(b.TimestampLow, endian) \o PutU32(Len(b.PacketData), endian)
        \o PutU32(b.OriginalPacketLength, endian)
        \o b.PacketData \o Zeros(Padding(Len(b.PacketData)))
        \o PutU32(32 + Len(b.PacketData) + Padding(Len(b.PacketData))
                     + Len(packOptionsOlder(b.Options, endian)), endian)

(***************************************************************************)
(* Enhanced packet blocks packed with the older package: packets of 0 to   *)
(* MaxLen + 2 bytes with an option list of the menu, in either byte order. *)
(***************************************************************************)
OlderOptionLists ==
    {<<>>,
     <<Opt_Comment(<<104, 105>>)>>,
     <<Opt_Comment(<<>>)>>,
     <<[t |-> "If_Name", Value |-> Str(3)], [t |-> "If_Tsresol", Num |-> 6]>>}

PackOlder ==
    /\ pc = "produce"
    /\ Len(made) < MaxBlocks
    /\ \E n \in 0..(MaxLen + 2), options \in OlderOptionLists, endian \in ByteOrders :
          /\ file' = file \o EnhancedPacketBlock_PackOlder(
                                EnhancedPacketBlock(Packet(n), options), endian)
          /\ made' = Append(made,
                        [block |-> EnhancedPacketBlock(Packet(n), options),
                         endian |-> endian, at |-> Len(file),
                         bytes |-> EnhancedPacketBlock_PackOlder(
                                      EnhancedPacketBlock(Packet(n), options), endian)])
    /\ UNCHANGED <<pc, wEndian, pos, prEndian, reads, out>>

NextOlderPack ==
    \/ PackOlder

SpecOlderPack == Init /\ [][NextOlderPack]_vars

(***************************************************************************)
(* Sources that hand out their data in pieces: a call fh.Read(p) answers   *)
(* at most c bytes (c 0: all the bytes asked for that the source has) and  *)
(* no error while bytes are left.  Each reader is run on such a source,    *)
(* and the answer it gives is kept next to the answer it gives when the    *)
(* bytes asked for come in one call.                                       *)
(***************************************************************************)
\* pr.Read() of pcapng on a source of pieces.  The 12 bytes of the block
\* header are asked for in one call and the rest of the block in another;
\* whole is the answer of Read, which took whole.n bytes in these two calls
ReadFromPieces(src, off, endian, c, whole) ==
    IF fh_Read(12, Len(src) - off, c).eof THEN whole
    ELSE IF fh_Read(12, Len(src) - off, c).count # 12
    THEN ReadResult("error", NoBlock, endian, fh_Read(12, Len(src) - off, c).count, FALSE)
    ELSE IF whole.n > 12 /\ fh_Read(whole.n - 12, Len(src) - off - 12, c).count # whole.n - 12
    THEN ReadResult("error", NoBlock, whole.Endian,
                    12 + fh_Read(whole.n - 12, Len(src) - off - 12, c).count, FALSE)
    ELSE whole

\* Reader(fh) of package pcap on a source of pieces: readFileHeader asks for
\* the 24 bytes of the file header in one call
PcapReaderFromPieces(src, c) ==
    IF fh_Read(24, Len(src), c).eof THEN Opened("eof", NoHeader, LittleEndian, FALSE, 0)
    ELSE IF fh_Read(24, Len(src), c).count # 24
    THEN Opened("error", NoHeader, LittleEndian, FALSE, fh_Read(24, Len(src), c).count)
    ELSE PcapReader(src)

\* the most bytes one call delivers
Pieces == {0, 8, 16}

\* block, err := pr.Read() of pcapng, run until it returns no block
PiecesRead ==
    /\ pc = "read"
    /\ \E c \in Pieces :
          reads' = Append(reads,
                      [at |-> pos, c |-> c,
                       r |-> ReadFromPieces(file, pos, prEndian, c, Read(file, pos, prEndian)),
                       whole |-> Read(file, pos, prEndian)])
    /\ pos' = pos + reads'[Len(reads')].r.n
    /\ prEndian' = reads'[Len(reads')].r.Endian
    /\ pc' = IF reads'[Len(reads')].r.kind = "block" THEN "read" ELSE "done"
    /\ UNCHANGED <<file, made, wEndian, out>>

\* pr, err := pcap.Reader(fh)
PiecesPcapOpen ==
    /\ pc = "pcapOpen"
    /\ \E c \in Pieces :
          reads' = <<[at |-> 0, c |-> c, r |-> PcapReaderFromPieces(file, c),
                      whole |-> PcapReader(file)]>>
    /\ pos' = reads'[1].r.n
    /\ prEndian' = reads'[1].r.Endian
    /\ pc' = IF reads'[1].r.kind = "reader" THEN "pcapPieces" ELSE "done"
    /\ UNCHANGED <<file, made, wEndian, out>>

\* ts, pkt, err := pr.Read() of package pcap, run until it returns no record
PiecesPcapRead ==
    /\ pc = "pcapPieces"
    /\ \E c \in Pieces :
          reads' = Append(reads,
                      [at |-> pos, c |-> c,
                       r |-> PcapReader_ReadFrom(file, pos, prEndian,
                                                 reads[1].r.NanoSecond, c, c),
                       whole |-> PcapReader_Read(file, pos, prEndian,
                                                 reads[1].r.NanoSecond)])
    /\ pos' = pos + reads'[Len(reads')].r.n
    /\ pc' = IF reads'[Len(reads')].r.kind = "record" THEN "pcapPieces" ELSE "done"
    /\ UNCHANGED <<file, made, wEndian, prEndian, out>>

NextPieces ==
    \/ WriteHeader
    \/ WriteBlock
    \/ CloseFile
    \/ PiecesRead
    \/ PcapFile
    \/ PcapAppend
    \/ PiecesPcapOpen
    \/ PiecesPcapRead

SpecPieces == Init /\ [][NextPieces]_vars

(***************************************************************************)
(* What the properties speak of.                                           *)
(***************************************************************************)
\* the bytes the producer wrote as its j-th block
MadeBytes(j) == Slice(file, made[j].at, made[j].at + made[j].len)

\* the byte order of the reader when its i-th Read began
EndianBefore(i) == IF i = 1 THEN Reader ELSE reads[i - 1].r.Endian

\* the i-th Read found 12 bytes of a block header
HasHeader(i) == reads[i].at + 12 <= Len(file)

\* the block type and the leading total_length as the i-th Read decoded them
TypeAt(i) == GetUint(Slice(file, reads[i].at, reads[i].at + 4), EndianBefore(i))

LeadAt(i) == GetUint(Slice(file, reads[i].at + 4, reads[i].at + 8), reads[i].r.Endian)

\* the i-th Read found a whole block: total_length bytes, at least 12
HasBlock(i) ==
    /\ HasHeader(i)
    /\ LeadAt(i) >= 12
    /\ LeadAt(i) <= Len(file) - reads[i].at

\* the bytes of that block
BlockBytes(i) == Slice(file, reads[i].at, reads[i].at + LeadAt(i))

KnownTypes ==
    {SECTION_HEADER_BLOCK, INTERFACE_DESCRIPTION_BLOCK, NAME_RESOLUTION_BLOCK,
     INTERFACE_STATISTICS_BLOCK, ENHANCED_PACKET_BLOCK}

\* Read returned an error value (io.EOF is one) and no block
ReturnedError(i) == reads[i].r.kind \in {"error", "eof"}

\* a typed block without the fields Pack never writes from the block
Content(b) ==
    IF b.t = "SectionBlock"
    THEN [b EXCEPT !.TotalLength = 0, !.ByteOrderMagic = MagicNumber]
    ELSE [b EXCEPT !.TotalLength = 0]

\* the i-th Read returned a block structurally equal to b
ReadBack(i, b) ==
    /\ reads[i].r.kind = "block"
    /\ reads[i].r.block.t = b.t
    /\ Content(reads[i].r.block) = Content(b)

\* every block of the file was written by Write, in the byte order endian
WrittenIn(endian) ==
    \A j \in 1..Len(made) : made[j].typed /\ made[j].endian = endian

\* the copy loop has ended
Done == pc = "done"

(***************************************************************************)
(* C1: round trip.  When a file written by Write alone (here with the      *)
(* default byte order, little endian) is read to its end, Read has         *)
(* returned one block per block written, structurally equal to it, then    *)
(* the end of the stream, and writing each block read gives the bytes it   *)
(* was read from.                                                          *)
(***************************************************************************)
C1_RoundTrip ==
    (Done /\ WrittenIn(LittleEndian)) =>
        /\ Len(reads) = Len(made) + 1
        /\ reads[Len(reads)].r.kind = "eof"
        /\ \A j \in 1..Len(made) :
              /\ ReadBack(j, made[j].block)
              /\ Write(reads[j].r.block, LittleEndian) = MadeBytes(j)

(***************************************************************************)
(* C2: per-section byte order.  In a file of blocks written by Write (its  *)
(* sections in any byte orders), the Read that begins at a section header  *)
(* returns a block and leaves pr.Endian equal to the byte order the        *)
(* header was written in; so a magic that reads as 0x4D3C2B1A flips the    *)
(* byte order.                                                             *)
(***************************************************************************)
C2_SectionByteOrder ==
    \A i \in 1..Len(reads) :
        (/\ i <= Len(made)
         /\ \A j \in 1..i : made[j].typed
         /\ made[i].at = reads[i].at
         /\ made[i].block.t = "SectionBlock")
        => /\ reads[i].r.kind = "block"
           /\ reads[i].r.Endian = made[i].endian

(***************************************************************************)
(* C3: a malformed frame length.  A Read that finds a header whose         *)
(* total_length is less than 12 or no multiple of 4 returns an error and   *)
(* no block (and so does not panic on an index out of range).              *)
(***************************************************************************)
C3_RejectsBadLength ==
    \A i \in 1..Len(reads) :
        (HasHeader(i) /\ (LeadAt(i) < 12 \/ LeadAt(i) % 4 # 0))
        => ReturnedError(i)

(***************************************************************************)
(* C4: the trailing length.  A Read that finds a whole block whose last 4  *)
(* bytes, in the current byte order, differ from the leading total_length  *)
(* returns an error instead of a block.                                    *)
(***************************************************************************)
C4_VerifiesTrailer ==
    \A i \in 1..Len(reads) :
        (/\ HasBlock(i)
         /\ GetUint(Slice(BlockBytes(i), LeadAt(i) - 4, LeadAt(i)), reads[i].r.Endian)
               # LeadAt(i))
        => ReturnedError(i)

(***************************************************************************)
(* C5: the TLV list decoder.  For a whole block of a length that is a      *)
(* multiple of 4, with any option region, Read returns a block or an       *)
(* error: it does not panic, and it slices no byte outside the region.     *)
(***************************************************************************)
C5_TlvListInRegion ==
    \A i \in 1..Len(reads) :
        (HasBlock(i) /\ LeadAt(i) % 4 = 0)
        => /\ reads[i].r.kind # "panic"
           /\ ~reads[i].r.over

(***************************************************************************)
(* C6: the bounds of an enhanced packet.  When the captured length, padded *)
(* to 4 bytes, plus 32 exceeds total_length (also when total_length is     *)
(* less than 32), Read returns an error and slices nothing out of bounds.  *)
(***************************************************************************)
PacketExceeds(i) ==
    \/ LeadAt(i) < 32
    \/ GetUint(Slice(BlockBytes(i), 20, 24), reads[i].r.Endian)
         + Padding(GetUint(Slice(BlockBytes(i), 20, 24), reads[i].r.Endian)) + 32
       > LeadAt(i)

C6_PacketBounds ==
    \A i \in 1..Len(reads) :
        (HasBlock(i) /\ TypeAt(i) = ENHANCED_PACKET_BLOCK /\ PacketExceeds(i))
        => (ReturnedError(i) /\ ~reads[i].r.over)

(***************************************************************************)
(* C7: unknown-block passthrough.  A Read that finds a whole block of a    *)
(* type it does not recognise returns a GenericBlock whose Data is all the *)
(* bytes of the block, Write of it in either byte order gives those bytes, *)
(* and so does the Write of the copy tool.                                 *)
(***************************************************************************)
C7_UnknownBlockPassthrough ==
    \A i \in 1..Len(reads) :
        (HasBlock(i) /\ TypeAt(i) \notin KnownTypes)
        => /\ reads[i].r.kind = "block"
           /\ reads[i].r.block.t = "GenericBlock"
           /\ reads[i].r.block.Data = BlockBytes(i)
           /\ \A endian \in ByteOrders : Write(reads[i].r.block, endian) = BlockBytes(i)
           /\ (i <= Len(out) => out[i] = BlockBytes(i))

\* an unknown block of a big-endian section has been read and copied
C7_Witness ==
    \E i \in 1..Len(reads) :
        /\ HasBlock(i)
        /\ TypeAt(i) = 9
        /\ LeadAt(i) = 16
        /\ EndianBefore(i) = BigEndian
        /\ i <= Len(out)

(***************************************************************************)
(* C8: unknown-option passthrough.  A block of a recognised kind with an   *)
(* option (or record) of an unknown code is read as a typed block that     *)
(* keeps every TLV of the list, and writing it back in the byte order of   *)
(* its section gives the bytes it was read from.                           *)
(***************************************************************************)
C8_UnknownOptionPassthrough ==
    \A i \in 1..Len(reads) :
        (/\ i <= Len(made)
         /\ made[i].at = reads[i].at
         /\ made[i].name \in {"unknownOption", "unknownRecord"}
         /\ EndianBefore(i) = made[i].endian)
        => /\ reads[i].r.kind = "block"
           /\ Write(reads[i].r.block, made[i].endian) = MadeBytes(i)

(***************************************************************************)
(* C9: alignment and length agreement.  The bytes Pack gives for a typed   *)
(* block have a length that is a multiple of 4, that the bytes 4..8        *)
(* encode and that the last 4 bytes encode; every option and record of     *)
(* the block packs to its 4 header bytes, its value and zero bytes up to   *)
(* the next multiple of 4.                                                 *)
(***************************************************************************)
\* the elements of the lists of a typed block
Elements(b) ==
    {b.Options[k] : k \in 1..Len(b.Options)}
    \cup (IF b.t = "NameResolutionBlock"
          THEN {b.Records[k] : k \in 1..Len(b.Records)} ELSE {})

\* tlv is a header that declares n bytes, n bytes, and zeros up to a multiple of 4
TlvAligned(tlv, n) ==
    /\ Len(tlv) % 4 = 0
    /\ Len(tlv) >= 4 + n
    /\ Len(tlv) < 4 + n + 4
    /\ \A k \in (4 + n + 1)..Len(tlv) : tlv[k] = 0

BlockAligned(bytes, endian) ==
    /\ Len(bytes) % 4 = 0
    /\ Len(bytes) >= 12
    /\ GetUint(Slice(bytes, 4, 8), endian) = Len(bytes)
    /\ GetUint(Slice(bytes, Len(bytes) - 4, Len(bytes)), endian) = Len(bytes)

C9_PackAligned ==
    \A j \in 1..Len(made) :
        made[j].typed =>
            /\ BlockAligned(MadeBytes(j), made[j].endian)
            /\ \A o \in Elements(made[j].block) :
                  TlvAligned(Option_Pack(o, made[j].endian),
                             GetUint(Slice(Option_Pack(o, made[j].endian), 2, 4),
                                     made[j].endian))

\* a packet of 1 byte with a comment of 3 bytes was packed in big endian
C9_Witness ==
    \E j \in 1..Len(made) :
        /\ made[j].typed
        /\ made[j].endian = BigEndian
        /\ made[j].block.t = "EnhancedPacketBlock"
        /\ Len(made[j].block.PacketData) = 1
        /\ Len(made[j].block.Options) = MaxOpts
        /\ made[j].block.Options[1] = Opt_Comment(Str(MaxLen))

(***************************************************************************)
(* C10: endianness duality.  A file written by Write in one byte order,    *)
(* big endian or little endian, reads back as the blocks written (but for  *)
(* the ByteOrderMagic the reader saw), so both byte orders read alike.     *)
(***************************************************************************)
C10_EndiannessDuality ==
    \A endian \in ByteOrders :
        (Done /\ WrittenIn(endian)) =>
            /\ Len(reads) = Len(made) + 1
            /\ \A j \in 1..Len(made) : ReadBack(j, made[j].block)

(***************************************************************************)
(* C11: the option-list terminator.  For every typed block written,        *)
(* packOptions gives nothing for an empty list and, for a list that is not *)
(* empty, bytes that end with the 4 zero bytes of the terminator, which    *)
(* are the last bytes of the block before the trailing length; and the     *)
(* reader gives the same result, with the same options and records, for    *)
(* the block as written and for the block without that terminator.         *)
(***************************************************************************)
\* p, the packed list of options, ends bytes (before the trailing length)
\* and is empty or terminated
Terminated(options, p, bytes) ==
    /\ (options = <<>>) = (p = <<>>)
    /\ p # <<>> => /\ Len(p) >= 8
                   /\ Len(p) % 4 = 0
                   /\ Slice(p, Len(p) - 4, Len(p)) = <<0, 0, 0, 0>>
    /\ Len(bytes) >= Len(p) + 12
    /\ Slice(bytes, Len(bytes) - 4 - Len(p), Len(bytes) - 4) = p

\* the block without the last 4 bytes of its body
Unterminated(bytes, endian) ==
    Slice(bytes, 0, 4) \o PutU32(Len(bytes) - 4, endian)
        \o Slice(bytes, 8, Len(bytes) - 8) \o PutU32(Len(bytes) - 4, endian)

\* two results of Read with the same lists
SameLists(r1, r2) ==
    /\ r1.kind = r2.kind
    /\ r1.kind = "block" =>
          /\ r1.block.t = r2.block.t
          /\ r1.block.Options = r2.block.Options
          /\ r1.block.t = "NameResolutionBlock" => r1.block.Records = r2.block.Records

C11_Terminator ==
    \A j \in 1..Len(made) :
        made[j].typed =>
            /\ Terminated(made[j].block.Options,
                          packOptions(made[j].block.Options, made[j].endian),
                          MadeBytes(j))
            /\ (j <= Len(reads) /\ made[j].block.Options # <<>>) =>
                  SameLists(reads[j].r,
                            Read(Unterminated(MadeBytes(j), made[j].endian), 0,
                                 EndianBefore(j)))

\* a big-endian block with two options, and one with none, were read back
C11_Witness ==
    /\ Len(reads) >= 2
    /\ Len(made) >= 2
    /\ made[2].endian = BigEndian
    /\ made[2].block.t = "InterfaceStatisticsBlock"
    /\ Len(made[2].block.Options) = 2
    /\ reads[2].r.kind = "block"
    /\ Len(reads[2].r.block.Options) = 2
    /\ made[1].block.Options = <<>>
    /\ reads[1].r.block.Options = <<>>

(***************************************************************************)
(* C12: the body of a name resolution block.  A NameResolutionBlock        *)
(* written with records R and options O is read back as a                  *)
(* NameResolutionBlock with Records = R and Options = O: the options are   *)
(* decoded from the bytes after the record terminator.                     *)
(***************************************************************************)
C12_NameResolutionBody ==
    \A j \in 1..Len(made) :
        (/\ made[j].typed
         /\ made[j].block.t = "NameResolutionBlock"
         /\ j <= Len(reads))
        => /\ reads[j].at = made[j].at
           /\ reads[j].r.kind = "block"
           /\ reads[j].r.block.t = "NameResolutionBlock"
           /\ reads[j].r.block.Records = made[j].block.Records
           /\ reads[j].r.block.Options = made[j].block.Options
           /\ reads[j].r.n = made[j].len

\* a name resolution block with records and options was read
C12_Witness ==
    \E j \in 1..Len(made) :
        /\ made[j].typed
        /\ made[j].block.t = "NameResolutionBlock"
        /\ Len(made[j].block.Records) = 2
        /\ made[j].block.Records[1].t # made[j].block.Records[2].t
        /\ Len(made[j].block.Options) = 2
        /\ made[j].block.Options[1].t = "Ns_DnsIP6addr"
        /\ j <= Len(reads)

(***************************************************************************)
(* C13: context-sensitive option decoding.  Whichever reader of the        *)
(* repository reads the file, every option of an EnhancedPacketBlock that  *)
(* Read returns is an Opt_Comment or an option of the enhanced packet      *)
(* table (Epb_Flags, Epb_Hash, Epb_Dropcount, Epb_Packetid, Epb_Queue),    *)
(* never If_Name, If_Tsresol or If_Os.                                     *)
(***************************************************************************)
EnhancedPacketOptionTypes ==
    {"Opt_Comment", "Epb_Flags", "Epb_Hash", "Epb_Dropcount", "Epb_Packetid", "Epb_Queue"}

C13_ContextSensitiveOptions ==
    \A i \in 1..Len(reads) :
        (reads[i].r.kind = "block" /\ reads[i].r.block.t = "EnhancedPacketBlock")
        => \A k \in 1..Len(reads[i].r.block.Options) :
              reads[i].r.block.Options[k].t \in EnhancedPacketOptionTypes

(***************************************************************************)
(* C14: option tags on write.  Every option and record of a typed block    *)
(* written is packed with the code of its own type (Epb_Dropcount with 4,  *)
(* Epb_Packetid with 5), and an EnhancedPacketBlock whose options are      *)
(* Epb_Dropcount or Epb_Packetid options is read back with options of the  *)
(* same types and values.                                                  *)
(***************************************************************************)
\* the code the source declares for each option and record type
OwnCode(t) ==
    CASE t = "Opt_Comment" -> opt_comment
      [] t = "Shb_Hardware" -> shb_hardware
      [] t = "Shb_Os" -> shb_os
      [] t = "Shb_Userappl" -> shb_userappl
      [] t = "If_Name" -> if_name
      [] t = "If_Tsresol" -> if_tsresol
      [] t = "If_Os" -> if_os
      [] t = "Isb_Starttime" -> isb_starttime
      [] t = "Isb_Endtime" -> isb_endtime
      [] t = "Isb_Ifrecv" -> isb_ifrecv
      [] t = "Isb_Ifdrop" -> isb_ifdrop
      [] t = "Isb_Filteraccept" -> isb_filteraccept
      [] t = "Isb_Osdrop" -> isb_osdrop
      [] t = "Isb_Usrdeliv" -> isb_usrdeliv
      [] t = "Epb_Flags" -> epb_flags
      [] t = "Epb_Hash" -> epb_hash
      [] t = "Epb_Dropcount" -> epb_dropcount
      [] t = "Epb_Packetid" -> epb_packetid
      [] t = "Epb_Queue" -> epb_queue
      [] t = "Nrb_Record_ipv4" -> nrb_record_ipv4
      [] t = "Nrb_Record_ipv6" -> nrb_record_ipv6
      [] t = "Ns_Dnsname" -> ns_dnsname
      [] t = "Ns_DnsIP4addr" -> ns_dnsIP4addr
      [] t = "Ns_DnsIP6addr" -> ns_dnsIP6addr

\* every option of the block is an Epb_Dropcount or an Epb_Packetid
CountsOnly(b) ==
    /\ b.t = "EnhancedPacketBlock"
    /\ b.Options # <<>>
    /\ \A k \in 1..Len(b.Options) : b.Options[k].t \in {"Epb_Dropcount", "Epb_Packetid"}

C14_OwnTags ==
    \A j \in 1..Len(made) :
        made[j].typed =>
            /\ \A o \in Elements(made[j].block) :
                  GetUint(Slice(Option_Pack(o, made[j].endian), 0, 2), made[j].endian)
                     = OwnCode(o.t)
            /\ (CountsOnly(made[j].block) /\ j <= Len(reads)) =>
                  /\ reads[j].r.kind = "block"
                  /\ reads[j].r.block.t = "EnhancedPacketBlock"
                  /\ reads[j].r.block.Options = made[j].block.Options

(***************************************************************************)
(* C15: the length limit of a TLV.  Write of a block with an option whose  *)
(* value is longer than 65535 bytes emits nothing (it returns an error);   *)
(* for a value of at most 65535 bytes the option is packed as a length     *)
(* field that tells the number of value bytes, followed by the value, and  *)
(* the block is read back with the same value.                             *)
(***************************************************************************)
\* tlv is a length field that tells Len(value), then value
TellsLength(tlv, value, endian) ==
    /\ Len(tlv) >= 4 + Len(value)
    /\ GetUint(Slice(tlv, 2, 4), endian) = Len(value)
    /\ Slice(tlv, 4, 4 + Len(value)) = value

C15_LengthLimit ==
    \A j \in 1..Len(made) :
        (made[j].typed /\ made[j].block.t = "InterfaceBlock") =>
            \A k \in 1..Len(made[j].block.Options) :
                IF Len(made[j].block.Options[k].Value) > MaxUint16
                THEN made[j].len = 0
                ELSE /\ TellsLength(Option_Pack(made[j].block.Options[k], made[j].endian),
                                    made[j].block.Options[k].Value, made[j].endian)
                     /\ j <= Len(reads) => ReadBack(j, made[j].block)

\* the part of C15 about the values that fit
C15_Fits ==
    \A j \in 1..Len(made) :
        (made[j].typed /\ made[j].block.t = "InterfaceBlock") =>
            \A k \in 1..Len(made[j].block.Options) :
                Len(made[j].block.Options[k].Value) <= MaxUint16 =>
                     /\ TellsLength(Option_Pack(made[j].block.Options[k], made[j].endian),
                                    made[j].block.Options[k].Value, made[j].endian)
                     /\ j <= Len(reads) => ReadBack(j, made[j].block)

(***************************************************************************)
(* C16: end of stream and truncation.  Read returns io.EOF only when it    *)
(* begins where the file ends, after whole blocks; when 1 to 11 bytes are  *)
(* left for the header, or fewer bytes than total_length for the block,    *)
(* Read returns no block and an error that is not io.EOF.                  *)
(***************************************************************************)
\* the bytes left in the file when the i-th Read began
Left(i) == Len(file) - reads[i].at

C16_EndOrTruncated ==
    \A i \in 1..Len(reads) :
        /\ reads[i].r.kind = "eof" => Left(i) = 0
        /\ (Left(i) > 0 /\ Left(i) < 12) =>
              (reads[i].r.kind = "error" /\ reads[i].r.block = NoBlock)
        /\ (HasHeader(i) /\ Left(i) < LeadAt(i)) =>
              (reads[i].r.kind = "error" /\ reads[i].r.block = NoBlock)

\* C16 but for the files that end right after the 12 bytes of a header
C16_ButAfterHeader ==
    \A i \in 1..Len(reads) :
        Left(i) # 12 =>
            /\ reads[i].r.kind = "eof" => Left(i) = 0
            /\ (Left(i) > 0 /\ Left(i) < 12) =>
                  (reads[i].r.kind = "error" /\ reads[i].r.block = NoBlock)
            /\ (HasHeader(i) /\ Left(i) < LeadAt(i)) =>
                  (reads[i].r.kind = "error" /\ reads[i].r.block = NoBlock)

(***************************************************************************)
(* C17: a bad byte-order magic.  A Read that finds the header of a block   *)
(* of type 0x0A0D0D0A whose byte-order magic, decoded in the byte order    *)
(* the reader had, is neither 0x1A2B3C4D nor 0x4D3C2B1A returns an error   *)
(* and no block, takes only the 12 header bytes from the file and leaves   *)
(* the byte order as it was.                                               *)
(***************************************************************************)
\* the byte-order magic as the i-th Read decoded it
MagicAt(i) == GetUint(Slice(file, reads[i].at + 8, reads[i].at + 12), EndianBefore(i))

BadMagicAt(i) ==
    /\ HasHeader(i)
    /\ TypeAt(i) = SECTION_HEADER_BLOCK
    /\ MagicAt(i) \notin {MagicNumber, SwapMagicNumber}

C17_BadMagic ==
    \A i \in 1..Len(reads) :
        BadMagicAt(i) =>
            /\ reads[i].r.kind = "error"
            /\ reads[i].r.block = NoBlock
            /\ reads[i].r.n = 12
            /\ reads[i].r.Endian = EndianBefore(i)
            /\ Len(out) < i

\* a section header with a bad magic was read after a big-endian section,
\* with more bytes of the block left in the file
C17_Witness ==
    \E i \in 2..Len(reads) :
        /\ BadMagicAt(i)
        /\ EndianBefore(i) = BigEndian
        /\ Left(i) > 12

(***************************************************************************)
(* C18: the minimal section header.  Write, in little endian, of a         *)
(* SectionBlock with no options gives the 28 bytes                         *)
(* 0A 0D 0D 0A 1C 00 00 00 4D 3C 2B 1A 01 00 00 00 FF FF FF FF FF FF FF FF *)
(* 1C 00 00 00; the copy loop on a file of those 28 bytes gets one         *)
(* SectionBlock with no options, total length 28 and section length -1,    *)
(* then the end of the stream.                                             *)
(***************************************************************************)
MinimalSection ==
    <<10, 13, 13, 10, 28, 0, 0, 0, 77, 60, 43, 26, 1, 0, 0, 0,
      255, 255, 255, 255, 255, 255, 255, 255, 28, 0, 0, 0>>

C18_MinimalSection ==
    /\ \A j \in 1..Len(made) :
          (/\ made[j].typed
           /\ made[j].block.t = "SectionBlock"
           /\ made[j].block.Options = <<>>
           /\ made[j].endian = LittleEndian)
          => MadeBytes(j) = MinimalSection
    /\ (Done /\ file = MinimalSection) =>
          /\ Len(reads) = 2
          /\ reads[1].r.kind = "block"
          /\ reads[1].r.block.t = "SectionBlock"
          /\ reads[1].r.block.Options = <<>>
          /\ reads[1].r.block.TotalLength = 28
          /\ reads[1].r.block.ByteOrderMagic = MagicNumber
          /\ reads[1].r.block.MajorVersion = 1
          /\ reads[1].r.block.MinorVersion = 0
          /\ reads[1].r.block.SectionLength = -1
          /\ reads[2].r.kind = "eof"
          /\ reads[2].at = 28

\* the file of the minimal section header alone was read to its end
C18_Witness ==
    /\ Done
    /\ Len(made) = 1
    /\ made[1].endian = LittleEndian
    /\ made[1].block.Options = <<>>
    /\ Len(file) = 28
    /\ Len(reads) = 2

(***************************************************************************)
(* C20: the header probe of a libpcap file.  Reader returns a reader       *)
(* exactly when the file has 24 bytes or more and its first 4 bytes, read  *)
(* in little endian, are one of the four magic numbers; the reader then    *)
(* has the byte order the header was written in, the nanosecond flag of    *)
(* its magic, and the seven header fields as they were written, the magic  *)
(* unswapped; any other file gives an error and no reader.                 *)
(***************************************************************************)
FourMagics ==
    {same_endian_usec_magic, swap_endian_usec_magic,
     same_endian_nsec_magic, swap_endian_nsec_magic}

C20_HeaderProbe ==
    reads # <<>> =>
        /\ (reads[1].r.kind = "reader")
              = (Len(file) >= 24 /\ MsbFirst(Slice(file, 0, 4), LittleEndian) \in FourMagics)
        /\ reads[1].r.kind = "reader" =>
              /\ reads[1].r.Endian = made[1].endian
              /\ reads[1].r.NanoSecond = (made[1].hdr.MagicNumber = same_endian_nsec_magic)
              /\ reads[1].r.Header = made[1].hdr
              /\ reads[1].r.Header.MagicNumber
                    \in {same_endian_usec_magic, same_endian_nsec_magic}
        /\ reads[1].r.kind # "reader" =>
              /\ reads[1].r.kind \in {"error", "eof"}
              /\ reads[1].r.Header = NoHeader
              /\ pc = "done"

\* a big-endian nanosecond file, its header followed by a byte, was opened
C20_Witness ==
    /\ reads # <<>>
    /\ reads[1].r.kind = "reader"
    /\ reads[1].r.Endian = BigEndian
    /\ reads[1].r.NanoSecond
    /\ made[1].hdr.MagicNumber = same_endian_nsec_magic
    /\ made[1].hdr.Thiszone = -1
    /\ made[1].hdr.Snaplen = 96
    /\ Len(file) = 25

(***************************************************************************)
(* C19: short writes are errors.  A write operation (Write of a pcapng     *)
(* block, Writer of a libpcap file with its 24-byte header, Write of a     *)
(* libpcap record with its 16-byte header and its payload) returns success *)
(* only when the sink accepted every byte of every call, whether or not    *)
(* the sink reported an error.                                             *)
(***************************************************************************)
AllAccepted(w) == \A k \in 1..Len(w.calls) : w.calls[k].n = w.calls[k].len

C19_ShortWrites ==
    \A i \in 1..Len(made) : made[i].result = "nil" => AllAccepted(made[i])

\* the part that holds: the calls whose count the code compares, which are
\* Write of pcapng and the payload of a libpcap record
C19_CountedCalls ==
    \A i \in 1..Len(made) :
        made[i].result = "nil" =>
            /\ made[i].op = "Write" => AllAccepted(made[i])
            /\ made[i].op = "PcapWrite" => made[i].calls[2].n = made[i].calls[2].len

(***************************************************************************)
(* C21: reading the records of a libpcap file.  Read answers io.EOF only   *)
(* when the file ends at a record boundary, also right after a record with *)
(* no packet bytes; a file that ends inside the 16-byte record header or   *)
(* before incl_len packet bytes gives another error; a whole record is     *)
(* returned with exactly its incl_len packet bytes, none when incl_len is  *)
(* 0.                                                                      *)
(***************************************************************************)
RecordRead(i, cutAt) ==
    IF made[1].len > 24 THEN reads[i].r.kind = "error"
    ELSE IF i > Len(made) THEN reads[i].r.kind = "eof"
    ELSE IF made[i].len = made[i].whole
    THEN /\ reads[i].r.kind = "record"
         /\ reads[i].r.pkt = made[i].pkt
         /\ Len(reads[i].r.pkt) = reads[i].r.header.InclLen
    ELSE made[i].len \in cutAt => reads[i].r.kind = "error"

C21_RecordReading ==
    \A i \in 2..Len(reads) : RecordRead(i, 1..20)

\* the part that holds: every file but the one that ends right after the
\* header of a record with packet bytes
C21_ButAfterHeader ==
    \A i \in 2..Len(reads) : RecordRead(i, 1..20 \ {16})

(***************************************************************************)
(* C22: writing the records of a libpcap file.  For every payload Write    *)
(* emits 16 + len(payload) bytes: a record header with incl_len and        *)
(* orig_len both len(payload), in the byte order of the writer, and then   *)
(* the payload as it is, with no padding.  The file header that Writer     *)
(* emits has version 2.4, snaplen 65535 and the microsecond magic.         *)
(***************************************************************************)
WrittenHeader == PcapHdr_Unpack(out[1], LittleEndian)

RecordWritten(bytes, pkt) ==
    /\ Len(bytes) = 16 + Len(pkt)
    /\ PcapRecHdr_Unpack(Slice(bytes, 0, 16), LittleEndian).InclLen = Len(pkt)
    /\ PcapRecHdr_Unpack(Slice(bytes, 0, 16), LittleEndian).OrigLen = Len(pkt)
    /\ Slice(bytes, 16, Len(bytes)) = pkt

C22_RecordWriting ==
    out # <<>> =>
        /\ Len(out[1]) = 24
        /\ WrittenHeader.MagicNumber = same_endian_usec_magic
        /\ WrittenHeader.VersionMajor = 2
        /\ WrittenHeader.VersionMinor = 4
        /\ WrittenHeader.Snaplen = 65535
        /\ \A k \in 2..Len(out) : RecordWritten(out[k], reads[k].r.pkt)

\* a record of one byte and a record of no byte were written
C22_Witness ==
    /\ Len(out) = 3
    /\ Len(reads[2].r.pkt) = 1
    /\ Len(out[2]) = 17
    /\ reads[3].r.pkt = <<>>
    /\ Len(out[3]) = 16

(***************************************************************************)
(* C23: the timestamps of a libpcap file keep their value.  A record with  *)
(* the seconds sec and the fraction frac, below 10^6 in a microsecond file *)
(* and below 10^9 in a nanosecond file, that goes through the reader and   *)
(* the writer has the same sec and frac afterwards; and the copy of the    *)
(* nanosecond file with the one record (1000000000, 500000000, "ABCD") is  *)
(* the file byte for byte.                                                 *)
(***************************************************************************)
RECURSIVE Joined(_)
Joined(seqs) == IF seqs = <<>> THEN <<>> ELSE Head(seqs) \o Joined(Tail(seqs))

\* the record header of the k-th element of the file, as it was written there
HeaderInFile(k) ==
    PcapRecHdr_Unpack(Slice(file, made[k].at, made[k].at + 16), made[1].endian)

SameTimestamp(k) ==
    /\ PcapRecHdr_Unpack(Slice(out[k], 0, 16), LittleEndian).TsSec = HeaderInFile(k).TsSec
    /\ PcapRecHdr_Unpack(Slice(out[k], 0, 16), LittleEndian).TsUsec = HeaderInFile(k).TsUsec

\* the file of the scenario: little endian, nanoseconds, one record
OneNanosecondRecord ==
    /\ Len(made) = 2
    /\ made[1].endian = LittleEndian
    /\ made[1].hdr.MagicNumber = same_endian_nsec_magic
    /\ made[2].sec = 1000000000
    /\ made[2].eighths = 4
    /\ made[2].pkt = <<65, 66, 67, 68>>
    /\ made[2].len = made[2].whole

\* the copy of a file of whole records has come to its end
Copied ==
    /\ pc = "done"
    /\ Len(reads) > 1
    /\ reads[Len(reads)].r.kind = "eof"
    /\ \A k \in 2..Len(made) : made[k].len = made[k].whole

C23_TimestampFidelity ==
    /\ \A k \in 2..Len(out) : SameTimestamp(k)
    /\ Copied /\ OneNanosecondRecord => Joined(out) = file

\* the part that holds: the records of a microsecond file keep their
\* timestamps, and a little-endian microsecond file with the header fields
\* of Writer is copied byte for byte
C23_Microseconds ==
    made # <<>> /\ made[1].hdr.MagicNumber = same_endian_usec_magic =>
        /\ \A k \in 2..Len(out) : SameTimestamp(k)
        /\ Copied /\ made[1].endian = LittleEndian /\ made[1].len = 24
              /\ WriterLike(made[1].hdr) => Joined(out) = file

(***************************************************************************)
(* C24: the layout of an enhanced packet block packed by the older         *)
(* package.  For every packet and option list Pack emits the 28-byte       *)
(* prefix with the captured length len(PacketData), the packet, zeros up   *)
(* to a 32-bit boundary, the packed option list and the total length       *)
(* again, so that the bytes emitted are as many as the total length says:  *)
(* 32 + the padded packet length + the option bytes.                       *)
(***************************************************************************)
PaddedLen(data) == Len(data) + Padding(Len(data))

PacketLayout(m, optionBytes) ==
    /\ GetUint(Slice(m.bytes, 0, 4), m.endian) = ENHANCED_PACKET_BLOCK
    /\ GetUint(Slice(m.bytes, 4, 8), m.endian)
          = 32 + PaddedLen(m.block.PacketData) + Len(optionBytes)
    /\ GetUint(Slice(m.bytes, 20, 24), m.endian) = Len(m.block.PacketData)
    /\ Len(m.bytes) = GetUint(Slice(m.bytes, 4, 8), m.endian)
    /\ Slice(m.bytes, 28, Len(m.bytes))
          = m.block.PacketData \o Zeros(Padding(Len(m.block.PacketData)))
               \o optionBytes \o Slice(m.bytes, 4, 8)

C24_PacketLayout ==
    \A i \in 1..Len(made) :
        PacketLayout(made[i], packOptionsOlder(made[i].block.Options, made[i].endian))

\* the part that holds: a block with no option
C24_WithoutOptions ==
    \A i \in 1..Len(made) :
        made[i].block.Options = <<>> => PacketLayout(made[i], <<>>)

(***************************************************************************)
(* C25: the byte order changes at section headers only.  The reader starts *)
(* in little endian, and a Read leaves pr.Endian as it found it unless the *)
(* block it read has the type 0x0A0D0D0A: a block of another type, the end *)
(* of the stream and a failure on another block change nothing.            *)
(***************************************************************************)
C25_EndianAtSections ==
    /\ reads = <<>> => prEndian = LittleEndian
    /\ \A i \in 1..Len(reads) :
          reads[i].r.Endian # EndianBefore(i) =>
              HasHeader(i) /\ TypeAt(i) = SECTION_HEADER_BLOCK
    /\ reads # <<>> /\ pc \in {"read", "write", "done"} =>
          prEndian = reads[Len(reads)].r.Endian

\* a section header turned the reader to big endian, a block of another
\* type was read after it, and the stream came to its end
C25_Witness ==
    /\ Len(reads) = 3
    /\ reads[1].r.Endian = BigEndian
    /\ TypeAt(2) # SECTION_HEADER_BLOCK
    /\ reads[2].r.kind = "block"
    /\ reads[2].r.Endian = BigEndian
    /\ reads[3].r.kind = "eof"
    /\ prEndian = BigEndian

(***************************************************************************)
(* C26: the order of the copy.  The copy tool writes every block that Read *)
(* returns, of whatever kind, once and before it reads again: the output   *)
(* has one block for each block read, in the order of the input, and       *)
(* nothing is written once Read has returned no block.                     *)
(***************************************************************************)
\* the blocks that are read and not yet written: one between a Read and
\* its Write, none otherwise
Unwritten == IF pc = "write" THEN 1 ELSE 0

\* the reads that returned no block: the last one, which ends the loop
Unanswered == IF pc = "done" THEN 1 ELSE 0

C26_CopyOrdering ==
    pc \in {"read", "write", "done"} =>
        /\ Len(out) = Len(reads) - Unwritten - Unanswered
        /\ \A k \in 1..Len(out) :
              /\ reads[k].r.kind = "block"
              /\ out[k] = Write(reads[k].r.block, Writer)
        /\ \A k \in 1..Len(reads) :
              /\ reads[k].r.kind # "block" => k = Len(reads) /\ pc = "done"
              /\ k > 1 => reads[k].at = reads[k - 1].at + reads[k - 1].r.n

\* a section header and a name resolution block were copied, and the copy
\* has ended at the end of the stream
C26_Witness ==
    /\ pc = "done"
    /\ Len(out) = 2
    /\ Len(reads) = 3
    /\ reads[1].r.block.t = "SectionBlock"
    /\ reads[2].r.block.t = "NameResolutionBlock"
    /\ reads[3].r.kind = "eof"
    /\ out[2] = Write(reads[2].r.block, Writer)

(***************************************************************************)
(* C27: the terminator of an option list.  Both decoders of TLV lists,     *)
(* getTlvList and getRawOptionList, end a list only at a TLV whose code    *)
(* and length are both zero: an option with a code and the length 0, such  *)
(* as an empty opt_comment, is an element of the list, and the options     *)
(* after it are decoded too.                                               *)
(***************************************************************************)
\* the i-th Read began at the i-th block written, an interface description
\* with options the package knows, and returned a block
ReadInterface(i) ==
    /\ i <= Len(made)
    /\ made[i].typed
    /\ made[i].block.t = "InterfaceBlock"
    /\ reads[i].at = made[i].at
    /\ reads[i].r.kind = "block"

OptionTypes(options) == [k \in 1..Len(options) |-> options[k].t]

C27_TerminatorRecognition ==
    \A i \in 1..Len(reads) :
        ReadInterface(i) =>
            OptionTypes(reads[i].r.block.Options) = OptionTypes(made[i].block.Options)

\* the same for the blocks without an option of length 0, which holds for
\* either reader
C27_WithoutEmptyOption ==
    \A i \in 1..Len(reads) :
        (ReadInterface(i) /\ \A k \in 1..Len(made[i].block.Options) :
                                made[i].block.Options[k] # Opt_Comment(<<>>)) =>
            OptionTypes(reads[i].r.block.Options) = OptionTypes(made[i].block.Options)

(***************************************************************************)
(* C28: the framing of the stream is kept.  When a Read returns a block,   *)
(* the bytes it took from the source are as many as the TotalLength of the *)
(* block, whatever that value is, so that the next Read begins at the      *)
(* first byte of the block that follows.                                   *)
(***************************************************************************)
C28_FramingKept ==
    \A i \in 1..Len(reads) :
        reads[i].r.kind = "block" =>
            /\ reads[i].r.n = reads[i].r.block.TotalLength
            /\ reads[i].r.block.TotalLength = LeadAt(i)
            /\ i < Len(reads) => reads[i + 1].at = reads[i].at + LeadAt(i)

\* the part that holds: the blocks whose total length is 12 or more
C28_FromTwelve ==
    \A i \in 1..Len(reads) :
        reads[i].r.kind = "block" /\ LeadAt(i) >= 12 =>
            /\ reads[i].r.n = reads[i].r.block.TotalLength
            /\ reads[i].r.block.TotalLength = LeadAt(i)
            /\ i < Len(reads) => reads[i + 1].at = reads[i].at + LeadAt(i)

(***************************************************************************)
(* C29: the output of the copy has one byte order per section.  When the   *)
(* copy loop runs on a valid input, also on a big-endian section with a    *)
(* block of an unknown type, every block of the output is encoded in the   *)
(* byte order that the last section header of the output before it         *)
(* announces.                                                              *)
(***************************************************************************)
\* the input is valid: blocks written by Write and well-framed blocks of
\* unknown types, in the byte order of their section
ValidInput ==
    \A j \in 1..Len(made) : made[j].typed \/ made[j].name \in {"unknown", "unknownEmpty"}

IsSection(bytes) == Slice(bytes, 0, 4) = PutU32(SECTION_HEADER_BLOCK, LittleEndian)

\* the byte order a section header announces with its byte-order magic
AnnouncedBy(bytes) ==
    IF Slice(bytes, 8, 12) = PutU32(MagicNumber, LittleEndian) THEN LittleEndian
    ELSE BigEndian

\* the last section header of the output up to its k-th block
OutSection(k) ==
    CHOOSE j \in 1..k : IsSection(out[j]) /\ \A l \in (j + 1)..k : ~IsSection(out[l])

\* both length fields of the block give its length in the byte order endian
EncodedIn(bytes, endian) ==
    /\ GetUint(Slice(bytes, 4, 8), endian) = Len(bytes)
    /\ GetUint(Slice(bytes, Len(bytes) - 4, Len(bytes)), endian) = Len(bytes)

C29_OneOrderPerSection ==
    ValidInput =>
        \A k \in 1..Len(out) :
            /\ \E j \in 1..k : IsSection(out[j])
            /\ EncodedIn(out[k], AnnouncedBy(out[OutSection(k)]))

\* the part that holds: the input has blocks of known types only, or is in
\* little endian
C29_KnownOrLittle ==
    (ValidInput /\ \A j \in 1..Len(made) : made[j].typed \/ made[j].endian = LittleEndian) =>
        \A k \in 1..Len(out) :
            /\ \E j \in 1..k : IsSection(out[j])
            /\ EncodedIn(out[k], AnnouncedBy(out[OutSection(k)]))

(***************************************************************************)
(* C30: reading does not depend on the pieces the source hands out.  On    *)
(* the same bytes, a source whose read calls answer fewer bytes than were  *)
(* asked for, with no error and more bytes to come, makes the readers of   *)
(* pcapng and of libpcap files return what they return when every range    *)
(* asked for comes in one call: the same blocks, the same records.         *)
(***************************************************************************)
SameAnswer(a, b) ==
    /\ a.kind = b.kind
    /\ a.kind = "block" => a.block = b.block
    /\ a.kind = "record" => a.pkt = b.pkt /\ a.ts = b.ts
    /\ a.kind = "reader" => a.Header = b.Header /\ a.NanoSecond = b.NanoSecond

C30_PiecesIndependence ==
    pc \in {"read", "pcapPieces", "done"} =>
        \A i \in 1..Len(reads) : SameAnswer(reads[i].r, reads[i].whole)

\* the part that holds: the calls in which the source had no more bytes
\* than one piece holds
C30_WithinOnePiece ==
    pc \in {"read", "pcapPieces", "done"} =>
        \A i \in 1..Len(reads) :
            (reads[i].c = 0 \/ Len(file) - reads[i].at <= reads[i].c) =>
                SameAnswer(reads[i].r, reads[i].whole)

====
